---- MODULE Spec2Model ----
(***************************************************************************)
(* Room-level combat engine (systems/combat_system.py), the combat         *)
(* commands that drive it (commands/combat.py), the runtime state service  *)
(* (systems/runtime_state.py: spawn eligibility, entity instances, room    *)
(* reset) and the encounter service (systems/encounter_system.py).         *)
(*                                                                         *)
(* Combat time is an integer number of units, with UnitsPerSecond units   *)
(* to the real second; the services' clock counts seconds.  Python None   *)
(* is "none", and a key a document lacks is Absent.                        *)
(* The combat tick task is taken to be running: a ticker step is one       *)
(* iteration of _combat_tick_loop, i.e. one call of process_combat_ticks.  *)
(***************************************************************************)
EXTENDS Integers, Sequences, FiniteSets, TLC

\* ---------------------------------------------------------------- bounds
MaxInitiative == 2      \* initiative rolls are drawn from 1..MaxInitiative
MaxHealth == 2          \* every entity starts with this much health
UnitsPerSecond == 2     \* resolution of the clock
MaxCommands == 2        \* player commands in one behaviour of Spec
MaxTime == 2            \* Spec's clock stops here
LongCommands == 3       \* player commands in one behaviour of SpecLong
LongTime == 4           \* SpecLong's clock stops here
MaxCallers == 3         \* callers of try_consume_spawn_eligibility
MaxAliveArg == 2        \* max_alive arguments are drawn from 1..MaxAliveArg
MaxSpawnTime == 2       \* the spawn specification's clock stops here
RoomsCommands == 1      \* hall commands in one behaviour of RoomsSpec
RoomsTime == 4          \* RoomsSpec's clock stops here
MaxCellarCommands == 1  \* cellar commands in one behaviour of RoomsSpec
RaceCommands == 2       \* commands in one behaviour of RaceSpec
RaceTime == 2           \* RaceSpec's clock stops here
MaxUuids == 4           \* uuid4 values drawn in one behaviour
MaxExpiry == 2          \* expires_at arguments are drawn from 0..MaxExpiry
MaxStoreOps == 5        \* service calls and clock moves in one behaviour
DieFaces == 4           \* faces of the die rolled against the zone table
MaxWeaponDamage == 2    \* weapons deal 1..MaxWeaponDamage before bonuses
MaxDurability == 2      \* current_durability of the weapon in hand
MaxPieces == 2          \* armor pieces the target wears
MaxDR == 2              \* damage reduction of one piece, 0..MaxDR
MaxArmorHp == 3         \* armor_hp of a piece
MaxRateTime == 2        \* the rate limiter's clock runs over 0..MaxRateTime
MaxRateCommands == 11   \* commands process_command lets through
FairRounds == 3         \* rounds the fair ticker tells apart
MaxHandlers == 4        \* connections made in one behaviour
max_connections == 2    \* self.max_connections, 50 in the server
MaxRealTime == 2        \* time.time() runs over 0..MaxRealTime units

\* ------------------------------------------------------ program constants
BaseAttackTickTenths == 10   \* base_attack_tick = 1.0 s
UnarmedSpeedTenths == 10     \* unarmed speed_cost = 1.0
MinIntervalTenths == 2       \* max(0.2, timeout)
UnarmedDamage == 1           \* unarmed base_damage
ExpBase == 25                \* 25 + (max_health // 2) * tier_multiplier
NpcMaxHealth == 50           \* NPC.max_health
DefaultMaxAlive == 1         \* max_alive: int = 1
DefaultCooldown == 60        \* cooldown_seconds = 60.0
DEFAULT_RESET_SECONDS == 3600        \* runtime_state.py
ENCOUNTER_COOLDOWN_SECONDS == 120    \* encounter_system.py
D100 == 100                  \* random.randint(1, 100)
max_commands_per_second == 10
TIME_RATIO == 3
SecondsPerDay == 86400
SecondsPerHour == 3600
ExplorationExp == 10
DefaultEffective == 50       \* .get("effective_skill", 50)
FirstDuration == 900         \* the first next_change_at - now
MinDuration == 600           \* random.randint(600, 1800)
MaxDuration == 1800
MaxIntensity == 3            \* min(3, ...)

Players == {"alice", "bob"}
Npcs == {"goblin"}
Names == Players \cup Npcs

\* a second room with a cast of its own
Rooms == {"hall", "cellar"}
CellarPlayers == {"carol"}
CellarNpcs == {"orc"}
CellarNames == CellarPlayers \cup CellarNpcs
NoName == "none"

\* ------------------------------------------------------------- helpers
Put(f, k, v) == [x \in (DOMAIN f) \cup {k} |-> IF x = k THEN v ELSE f[x]]

Drop(f, k) == [x \in (DOMAIN f) \ {k} |-> f[x]]

EmptyMap == [x \in {} |-> 0]

Max2(a, b) == IF a >= b THEN a ELSE b

\* "player" if hasattr(entity, 'connection') else "npc"
EntityType(name) ==
  IF name \in Players \cup CellarPlayers THEN "player" ELSE "npc"

NoAction == [primary |-> "none", minor |-> "none"]

\* list.sort(key=initiative, reverse=True): a stable sort, so an entry goes
\* after every entry whose initiative is at least its own
InsertStable(s, e) ==
  LET k == Cardinality({i \in 1..Len(s) : s[i][3] >= e[3]})
  IN SubSeq(s, 1, k) \o <<e>> \o SubSeq(s, k + 1, Len(s))

RECURSIVE SortByInitiative(_)
SortByInitiative(s) ==
  IF s = <<>> THEN <<>>
  ELSE InsertStable(SortByInitiative(SubSeq(s, 1, Len(s) - 1)), s[Len(s)])

\* ------------------------------------------------------------ CombatState
CombatStateInit ==
  [is_active |-> FALSE,
   round_number |-> 0,
   initiative_order |-> <<>>,
   current_turn_index |-> 0,
   combatants |-> EmptyMap,
   combatant_keys |-> <<>>,
   started_at |-> -1,
   turn_actions |-> EmptyMap,
   turn_started_at |-> EmptyMap]

\* add_combatant that appends the new entry and leaves the list as it is
AddCombatantUnsorted(c, name, etype, initiative) ==
  IF name \in DOMAIN c.combatants THEN c
  ELSE [c EXCEPT
          !.combatants = Put(@, name, [type |-> etype, state |-> "Observing",
                                       states |-> <<"Observing">>,
                                       initiative |-> initiative,
                                       target |-> NoName]),
          !.combatant_keys = Append(@, name),
          !.turn_actions = Put(@, name, NoAction),
          !.initiative_order = Append(@, <<name, etype, initiative>>)]

AddCombatant(c, name, etype, initiative) ==
  IF name \in DOMAIN c.combatants THEN c
  ELSE [c EXCEPT
          !.combatants = Put(@, name, [type |-> etype, state |-> "Observing",
                                       states |-> <<"Observing">>,
                                       initiative |-> initiative,
                                       target |-> NoName]),
          !.combatant_keys = Append(@, name),
          !.turn_actions = Put(@, name, NoAction),
          !.initiative_order =
              SortByInitiative(Append(@, <<name, etype, initiative>>))]

RemoveCombatant(c, name) ==
  IF name \in DOMAIN c.combatants
  THEN [c EXCEPT
          !.combatants = Drop(@, name),
          !.combatant_keys = SelectSeq(@, LAMBDA k : k # name),
          !.initiative_order = SelectSeq(@, LAMBDA e : e[1] # name)]
  ELSE c

\* next_turn: the combat after the advance, and whether a new round began
NextTurn(c) ==
  IF c.current_turn_index + 1 >= Len(c.initiative_order)
  THEN [c |-> [c EXCEPT !.current_turn_index = 0,
                        !.round_number = @ + 1],
        new_round |-> TRUE]
  ELSE [c |-> [c EXCEPT !.current_turn_index = @ + 1], new_round |-> FALSE]

\* the name at initiative_order[current_turn_index]; "none" where the
\* subscript is out of range (Python raises IndexError there)
CurrentName(c) ==
  IF c.current_turn_index < Len(c.initiative_order)
  THEN c.initiative_order[c.current_turn_index + 1][1]
  ELSE NoName

EndCombat(c) == [c EXCEPT !.is_active = FALSE]

\* the loop "for name in combat.combatants" that opens a new round
ResetRound(c, t) ==
  [c EXCEPT
     !.turn_actions = [n \in DOMAIN @ \cup DOMAIN c.combatants |->
                         IF n \in DOMAIN c.combatants THEN NoAction ELSE @[n]],
     !.turn_started_at = [n \in DOMAIN @ \cup DOMAIN c.combatants |->
                         IF n \in DOMAIN c.combatants THEN t ELSE @[n]]]

\* start_combat that engages, targets and stamps only the combatants it has
\* just added, leaving those retained from an earlier combat as they were
StartCombatNewcomersOnly(c, attacker, target, ia, it, t) ==
  LET c1 == [c EXCEPT !.is_active = TRUE, !.started_at = t,
                      !.round_number = 1]
      c2 == AddCombatant(c1, attacker, EntityType(attacker), ia)
      c3 == AddCombatant(c2, target, EntityType(target), it)
      Engage(cc, n, tgt) ==
        IF n \in DOMAIN c.combatants THEN cc
        ELSE [cc EXCEPT !.combatants[n].state = "Engaged",
                        !.combatants[n].target = tgt,
                        !.turn_started_at = Put(@, n, t)]
  IN Engage(Engage(c3, attacker, target), target, attacker)

\* start_combat(room_id, attacker, target)
StartCombat(c, attacker, target, ia, it, t) ==
  LET c1 == [c EXCEPT !.is_active = TRUE, !.started_at = t,
                      !.round_number = 1]
      c2 == AddCombatant(c1, attacker, EntityType(attacker), ia)
      c3 == AddCombatant(c2, target, EntityType(target), it)
  IN [c3 EXCEPT
        !.combatants[attacker].state = "Engaged",
        !.combatants[attacker].target = target,
        !.combatants[target].state = "Engaged",
        !.combatants[target].target = attacker,
        !.turn_started_at = Put(Put(@, attacker, t), target, t)]

JoinCombat(c, name, target, init, t) ==
  IF ~c.is_active THEN c
  ELSE LET c1 == AddCombatant(c, name, EntityType(name), init)
           c2 == IF target # NoName /\ target \in DOMAIN c1.combatants
                 THEN [c1 EXCEPT !.combatants[name].state = "Engaged",
                                 !.combatants[name].target = target]
                 ELSE c1
       IN [c2 EXCEPT !.turn_started_at = Put(@, name, t)]

LeaveCombat(c, name) ==
  IF name \notin DOMAIN c.combatants THEN c
  ELSE LET c1 == RemoveCombatant(c, name)
           c2 == [c1 EXCEPT !.turn_actions = Drop(@, name),
                            !.turn_started_at = Drop(@, name)]
       IN IF Cardinality(DOMAIN c2.combatants) < 2 THEN EndCombat(c2) ELSE c2

\* ------------------------------------------------------------ attack, turn
\* what process_turn returns: None, {"success": False, ...} or the hit
ResNone == [kind |-> "none", message |-> "", damage |-> 0, target |-> NoName]

ResFail(msg) == [kind |-> "fail", message |-> msg, damage |-> 0,
                 target |-> NoName]

ResHit(dmg, tgt) == [kind |-> "ok", message |-> "", damage |-> dmg,
                     target |-> tgt]

\* what an operation leaves behind: the combat record, the entities' health,
\* the value returned, and whether it ended by raising
Outcome(c, h, res, raised) ==
  [c |-> c, h |-> h, result |-> res, raised |-> raised]

\* _get_turn_timeout for an unarmed entity, in tenths of a second
TurnTimeoutTenths ==
  Max2(MinIntervalTenths, (BaseAttackTickTenths * UnarmedSpeedTenths) \div 10)

\* elapsed >= timeout, with elapsed counted in clock units
IntervalElapsed(start, t) ==
  (t - start) * 10 >= TurnTimeoutTenths * UnitsPerSecond

\* _process_attack for an unarmed attacker and an unarmoured target: the
\* contest's verdict (hit) and the damage rolled are the caller's draws
ProcessAttack(c, h, target_name, hit, dmg) ==
  IF target_name = NoName
  THEN [result |-> ResFail("No target specified"), h |-> h]
  ELSE IF target_name \notin DOMAIN c.combatants
  THEN [result |-> ResFail("Target not found in combat"), h |-> h]
  ELSE IF ~hit
  THEN [result |-> ResFail("Attack missed"), h |-> h]
  ELSE [result |-> ResHit(dmg, target_name),
        h |-> [h EXCEPT ![target_name] = Max2(0, @ - dmg)]]

\* process_turn, "Check for defeat": the formatter (the game object) has no
\* _on_combat_defeated, so only the combat record changes
CheckDefeat(c, h, res) ==
  IF res.kind = "ok" /\ res.damage > 0
     /\ res.target \in DOMAIN c.combatants /\ h[res.target] <= 0
  THEN LET c1 == RemoveCombatant(c, res.target)
       IN IF Cardinality(DOMAIN c1.combatants) < 2 THEN EndCombat(c1) ELSE c1
  ELSE c

\* process_turn, "Advance turn if primary action was used"
AdvanceTurn(c, h, entity_name, res, t) ==
  IF c.initiative_order = <<>> THEN Outcome(c, h, res, FALSE)
  ELSE IF c.current_turn_index >= Len(c.initiative_order)
  THEN Outcome(c, h, res, TRUE)                          \* IndexError
  ELSE IF CurrentName(c) # entity_name THEN Outcome(c, h, res, FALSE)
  ELSE LET n == NextTurn(c)
       IN IF n.new_round
          THEN Outcome(ResetRound(n.c, t), h, res, FALSE)
          ELSE IF n.c.initiative_order # <<>>
          THEN LET next_name == CurrentName(n.c)
               IN Outcome([n.c EXCEPT
                             !.turn_actions = Put(@, next_name, NoAction),
                             !.turn_started_at = Put(@, next_name, t)],
                          h, res, FALSE)
          ELSE Outcome(n.c, h, res, FALSE)

\* process_turn(room_id, entity_name, "attack", {"target": target_name})
ProcessTurn(c, h, entity_name, target_name, hit, dmg, t) ==
  IF ~c.is_active THEN Outcome(c, h, ResNone, FALSE)
  ELSE IF entity_name \notin DOMAIN c.combatants
  THEN Outcome(c, h, ResFail("You are not in combat"), FALSE)
  ELSE IF c.turn_actions[entity_name].primary # "none"
  THEN Outcome(c, h, ResFail("already used"), FALSE)
  ELSE LET a == ProcessAttack(c, h, target_name, hit, dmg)
           c1 == IF a.result.kind = "ok"
                 THEN [c EXCEPT !.turn_actions[entity_name].primary = "attack"]
                 ELSE c
           c2 == CheckDefeat(c1, a.h, a.result)
       IN AdvanceTurn(c2, a.h, entity_name, a.result, t)

\* the tail shared by _process_npc_turn and _process_player_auto_attack:
\* "If attack failed, still advance turn"
FailedAttackAdvance(c, name, t) ==
  LET c1 == [c EXCEPT !.turn_actions[name].primary = "attack"]
      n == NextTurn(c1)
  IN IF n.new_round THEN ResetRound(n.c, t)
     ELSE IF n.c.initiative_order # <<>>
             /\ CurrentName(n.c) \in DOMAIN n.c.combatants
     THEN [n.c EXCEPT !.turn_started_at = Put(@, CurrentName(n.c), t)]
     ELSE n.c

AutoAttack(c, h, name, target_name, hit, dmg, t) ==
  LET o == ProcessTurn(c, h, name, target_name, hit, dmg, t)
  IN IF ~o.raised /\ o.result.kind = "fail"
     THEN Outcome(FailedAttackAdvance(o.c, name, t), o.h, o.result, FALSE)
     ELSE o

\* "for name, info in combat.combatants.items(): if type == player: break"
FirstPlayer(c) ==
  LET ps == SelectSeq(c.combatant_keys,
                      LAMBDA k : c.combatants[k].type = "player")
  IN IF ps = <<>> THEN NoName ELSE ps[1]

NpcTarget(c, npc_name) ==
  LET tgt == c.combatants[npc_name].target
  IN IF tgt = NoName \/ tgt \notin DOMAIN c.combatants
     THEN (IF FirstPlayer(c) # NoName THEN FirstPlayer(c) ELSE tgt)
     ELSE tgt

ProcessNpcTurn(c, h, npc_name, hit, dmg, t) ==
  IF NpcTarget(c, npc_name) # NoName
  THEN AutoAttack(c, h, npc_name, NpcTarget(c, npc_name), hit, dmg, t)
  ELSE Outcome(c, h, ResNone, FALSE)

\* TRUE when _process_player_auto_attack returns at once ("paused")
PlayerPaused(c, player_name) ==
  LET tgt == c.combatants[player_name].target
  IN tgt = NoName \/ tgt \notin DOMAIN c.combatants

\* _process_player_auto_attack without the return for a missing target
ProcessPlayerAutoAttackUngated(c, h, player_name, hit, dmg, t) ==
  AutoAttack(c, h, player_name, c.combatants[player_name].target,
             hit, dmg, t)

\* _process_player_auto_attack
ProcessPlayerAutoAttack(c, h, player_name, hit, dmg, t) ==
  IF PlayerPaused(c, player_name) THEN Outcome(c, h, ResNone, FALSE)
  ELSE AutoAttack(c, h, player_name, c.combatants[player_name].target,
                  hit, dmg, t)

\* what one pass of process_combat_ticks does with the room: "skip",
\* "end", "raise" (IndexError at the subscript), "wait" or "act"
TickBranch(c, t) ==
  IF ~c.is_active THEN "skip"
  ELSE IF Cardinality(DOMAIN c.combatants) < 2 THEN "end"
  ELSE IF c.initiative_order = <<>> THEN "skip"
  ELSE IF c.current_turn_index >= Len(c.initiative_order) THEN "raise"
  ELSE IF CurrentName(c) \notin DOMAIN c.combatants THEN "skip"
  ELSE LET name == CurrentName(c)
           acts == IF name \in DOMAIN c.turn_actions
                   THEN c.turn_actions[name] ELSE NoAction
           start == IF name \in DOMAIN c.turn_started_at
                    THEN c.turn_started_at[name] ELSE c.started_at
       IN IF acts.primary = "none" /\ IntervalElapsed(start, t)
          THEN "act" ELSE "wait"

ProcessCombatTicks(c, h, hit, dmg, t) ==
  LET b == TickBranch(c, t)
  IN IF b = "end" THEN Outcome(EndCombat(c), h, ResNone, FALSE)
     ELSE IF b = "raise" THEN Outcome(c, h, ResNone, TRUE)
     ELSE IF b = "act"
     THEN (IF c.initiative_order[c.current_turn_index + 1][2] = "npc"
           THEN ProcessNpcTurn(c, h, CurrentName(c), hit, dmg, t)
           ELSE ProcessPlayerAutoAttack(c, h, CurrentName(c), hit, dmg, t))
     ELSE Outcome(c, h, ResNone, FALSE)

\* ------------------------------------------------------------------ state
VARIABLES
  combat,           \* active_combats[room_id], created on first use
  health,           \* entity.health of every player and template NPC
  room_npcs,        \* room.npcs
  experience,       \* player.experience
  now,              \* time.time(), in clock units
  commands_issued,  \* commands executed so far
  lastEvent,        \* history: the operation that ran last and its outcome
  attack_log,       \* history: per name, the round of its last landed
                    \*          primary attack and how many landed in that
                    \*          round of the running combat
  auto_attacks,     \* history: auto-attacks emitted since horizon_start
  horizon_start,    \* history: when membership and targets last changed
  turn_since,       \* history: when the turn that is running began
  data_layer,       \* RuntimeStateService.data_layer
  room_state,       \* the room_state document's spawn timer entry
  consumers,        \* callers of try_consume_spawn_eligibility
  spawn_now,        \* _now_ts() of the spawn specification
  players,          \* MudGame.players: the names with a live session
  room_order,       \* the keys of active_combats, in insertion order
  cellar,           \* active_combats["cellar"]
  cellar_health,    \* entity.health of the cellar's cast
  cellar_commands,  \* commands executed in the cellar
  pass_log,         \* history: what the last ticker pass got through
  race,             \* where the command worker and the ticker thread stand
                    \* inside leave_combat and process_combat_ticks, and
                    \* history: the state their overlap began from
  room_doc,         \* the room_state collection: one document per room
  entity_instance,  \* the entity_instance collection, by instance id
  entity_position,  \* the entity_position collection: instance id -> room
  uuids,            \* how many uuid4 values have been drawn
  store_ops,        \* service calls and clock moves so far
  store_log,        \* history: the last call of the runtime state service
  rollers,          \* where each session stands in roll_random_encounter
  calc,             \* a call of a function of the engine: its arguments
                    \* and, once it has returned, its result
  world_time,       \* WorldTime: start_real_time, start_world_seconds
  real_time,        \* time.time(), in units
  clock_log,        \* history: the last reading of the clock, a reading
                    \* kept from before it, the last set_time command
  rate_limiter,     \* rate_limiter[player_name]: times of the commands
                    \* let through within the last second
  rate_log,         \* history: the times of all commands let through,
                    \* the commands executed, the last command's outcome
  passes,           \* history: the parity of the ticker passes made
  player_room_id,   \* player.room_id of the hall's players
  deferred_changes, \* NPCScheduler.deferred_changes: the npc ids in it
  present_npc_ids,  \* the NPCs the last look at the hall listed
  region_weather,   \* WeatherService.region_weather of the coast
  weather_log,      \* history: the last call of the weather service
  active_connections, \* MudServer.active_connections
  handler,          \* where each connection handler stands
  travel            \* the traveller's room_id, the rooms' players,
                    \* explored_rooms, experience, the last message,
                    \* history: whether a shop has turned the traveller
                    \* away

combatVars == <<combat, health, room_npcs, experience, now, commands_issued,
                lastEvent, attack_log, auto_attacks, horizon_start,
                turn_since>>

spawnVars == <<data_layer, room_state, consumers, spawn_now>>

sessionVars == <<players>>

cellarVars == <<cellar, cellar_health, cellar_commands, pass_log>>

storeVars == <<room_doc, entity_instance, entity_position, uuids, store_ops,
               store_log, rollers>>

\* the state of the parts that stand apart from combat and from the stores
worldVars == <<world_time, real_time, clock_log, travel>>

rateVars == <<rate_limiter, rate_log>>

presenceVars == <<deferred_changes, present_npc_ids>>

weatherVars == <<region_weather, weather_log>>

connVars == <<active_connections, handler>>

restVars == <<calc, worldVars, rateVars, passes, player_room_id,
              presenceVars, weatherVars, connVars>>

\* what the hall's combat and the hall's commands never write
offCombatVars == <<spawnVars, sessionVars, cellarVars, race, storeVars,
                   restVars>>

\* what try_consume_spawn_eligibility never writes
offSpawnVars == <<combatVars, sessionVars, cellarVars, room_order, race,
                  storeVars, restVars>>

\* what the entity, reset and encounter calls never write
offStoreVars == <<combatVars, sessionVars, cellarVars, room_order, race,
                  data_layer, room_state, consumers, restVars>>

vars == <<combat, health, room_npcs, experience, now, commands_issued,
          lastEvent, attack_log, auto_attacks, horizon_start, turn_since,
          data_layer, room_state, consumers, spawn_now, players,
          room_order, cellar, cellar_health, cellar_commands, pass_log,
          race, room_doc, entity_instance, entity_position, uuids,
          store_ops, store_log, rollers, calc, world_time, real_time,
          clock_log, travel, rate_limiter, rate_log, passes,
          player_room_id, deferred_changes, present_npc_ids,
          region_weather, weather_log, active_connections, handler>>

DamageRolls == {UnarmedDamage, 2 * UnarmedDamage}   \* plain hit, critical

\* 25 + (max_health // 2) * tier_multiplier, tier Low, exp_value 0
ExpGain == ExpBase + (NpcMaxHealth \div 2) * 1

Event(op, actor, outcome) == [op |-> op, actor |-> actor, outcome |-> outcome]

NoLog == [round |-> 0, count |-> 0]

ZeroCounts == [n \in Names |-> 0]

\* who points at whom, and whether the combat runs
Engagement(c) ==
  [active |-> c.is_active,
   targets |-> [n \in DOMAIN c.combatants |-> c.combatants[n].target]]

\* history bookkeeping shared by every operation of the combat engine
LogAttack(name, round, landed) ==
  attack_log' =
    IF landed
    THEN [attack_log EXCEPT ![name] =
            IF @.round = round THEN [@ EXCEPT !.count = @ + 1]
            ELSE [round |-> round, count |-> 1]]
    ELSE attack_log

\* whose turn it is, in which round, and whether the combat runs
Turn(c) == <<c.is_active, c.round_number, CurrentName(c)>>

Horizon(c0, c1, t, emitter) ==
  /\ turn_since' = IF Turn(c0) # Turn(c1) THEN t ELSE turn_since
  /\ IF Engagement(c0) # Engagement(c1)
     THEN /\ horizon_start' = t
          /\ auto_attacks' = ZeroCounts
     ELSE /\ horizon_start' = horizon_start
          /\ auto_attacks' = IF emitter = NoName THEN auto_attacks
                             ELSE [auto_attacks EXCEPT ![emitter] = @ + 1]

\* get_combat_state(room_id): the room's CombatState is created, and its
\* key inserted in active_combats, the first time it is asked for
GetCombatState(room_id) ==
  room_order' = IF \E i \in 1..Len(room_order) : room_order[i] = room_id
                THEN room_order ELSE Append(room_order, room_id)

\* no pass has run yet
NoPass == [active |-> {}, done |-> {}, raiser |-> NoName]

\* neither thread is inside an operation on the room
NoRace ==
  [cmd |-> "idle", leaver |-> NoName,
   tick |-> "idle", name |-> NoName, etype |-> "none", target |-> NoName,
   overlap |-> FALSE, base_c |-> CombatStateInit,
   base_h |-> [n \in Names |-> MaxHealth], t |-> 0]

Callers == 1..MaxCallers

\* entry.get("alive_count", 0), entry.get("next_spawn_at", 0) of a timer
\* that was never written
NoTimer == [alive_count |-> 0, next_spawn_at |-> 0, last_spawn_at |-> 0]

Idle == [pc |-> "idle", max_alive |-> 0, result |-> FALSE, now |-> 0]

SpawnInitVars ==
  /\ room_state = NoTimer
  /\ consumers = [k \in Callers |-> Idle]
  /\ spawn_now = 0

\* a key that a document does not carry
Absent == -1

Uuids == 1..MaxUuids

Sessions == {"s1", "s2"}

\* no document under that key: load_* returns None
NoDoc ==
  [exists |-> FALSE, seed |-> 0, created_at |-> 0, last_active_at |-> 0,
   last_reset_at |-> 0, next_reset_at |-> 0, state_version |-> 0,
   last_encounter_roll_at |-> Absent]

NoInstance ==
  [exists |-> FALSE, template_id |-> "none", created_at |-> 0,
   expires_at |-> Absent, encounter_id |-> Absent, hp_current |-> Absent,
   hp_max |-> Absent]

NoCall ==
  [seq |-> 0, op |-> "none", room |-> "none", t |-> 0, raised |-> FALSE,
   out |-> {}, prev |-> <<"none", "none", 0>>, outcome |-> "none",
   rolled_at |-> [r \in Rooms |-> Absent]]

NoRoll == [pc |-> "idle", room |-> "none", state |-> NoDoc, now |-> 0]

StoreInitVars ==
  /\ room_doc = [r \in Rooms |-> NoDoc]
  /\ entity_instance = [i \in Uuids |-> NoInstance]
  /\ entity_position = [i \in Uuids |-> "none"]
  /\ uuids = 0
  /\ store_ops = 0
  /\ store_log = NoCall
  /\ rollers = [k \in Sessions |-> NoRoll]

\* no call made
NoCalc == [pc |-> "none"]

NoReading == [t |-> Absent, world_seconds |-> 0]

NoSet == [args |-> <<>>, outcome |-> "none",
          before |-> [start_real_time |-> 0, start_world_seconds |-> 0]]

WorldInitVars ==
  /\ world_time = [start_real_time |-> 0, start_world_seconds |-> 0]
  /\ real_time = 0
  /\ clock_log = [op |-> "none", last |-> NoReading, mark |-> NoReading,
                  set |-> NoSet]
  /\ travel = [room_id |-> "street",
               players |-> [street |-> {"traveller"}, shop |-> {}],
               explored_rooms |-> {"street"}, experience |-> 0,
               turned_away |-> FALSE, message |-> "none"]

RateInitVars ==
  /\ rate_limiter = [p \in Players |-> <<>>]
  /\ rate_log = [accepted |-> [p \in Players |-> <<>>],
                 executed |-> [p \in Players |-> 0],
                 last |-> [player |-> "none", outcome |-> "none",
                           counted |-> FALSE, executed |-> FALSE]]

\* the connections that reach the server in one behaviour
Handlers == 1..MaxHandlers

\* no connection has been made
ConnInitVars ==
  /\ active_connections = 0
  /\ handler = [h \in Handlers |-> "none"]

\* region_weather has no record of the coast
NoWeather ==
  [exists |-> FALSE, weather_type |-> "none", intensity |-> 0,
   started_at |-> 0, next_change_at |-> 0]

WeatherInitVars ==
  /\ region_weather = NoWeather
  /\ weather_log = [op |-> "none", now |-> 0, before |-> NoWeather]

\* no deferral, and nobody has looked yet
PresenceInitVars ==
  /\ deferred_changes = {}
  /\ present_npc_ids = {}

\* nobody has left the hall
InTheHall == [p \in Players |-> "hall"]

RestInitVars ==
  /\ calc = NoCalc /\ WorldInitVars /\ RateInitVars /\ passes = 0
  /\ player_room_id = InTheHall
  /\ PresenceInitVars
  /\ WeatherInitVars
  /\ ConnInitVars

CombatInitVars ==
  /\ combat = CombatStateInit
  /\ health = [n \in Names |-> MaxHealth]
  /\ room_npcs = Npcs
  /\ experience = [p \in Players |-> 0]
  /\ now = 0
  /\ commands_issued = 0
  /\ lastEvent = Event("init", NoName, "none")
  /\ attack_log = [n \in Names |-> NoLog]
  /\ auto_attacks = ZeroCounts
  /\ horizon_start = 0
  /\ turn_since = 0
  /\ players = Players
  /\ room_order = <<>>
  /\ cellar = CombatStateInit
  /\ cellar_health = [n \in CellarNames |-> MaxHealth]
  /\ cellar_commands = 0
  /\ pass_log = NoPass
  /\ race = NoRace

Init ==
  /\ CombatInitVars
  /\ data_layer = "FirebaseDataLayer"
  /\ SpawnInitVars
  /\ StoreInitVars
  /\ RestInitVars

\* random.randint(1, 20) + bonus, rolled only for a name add_combatant adds
InitiativeRolls(name) ==
  IF name \in DOMAIN combat.combatants THEN {1} ELSE 1..MaxInitiative

\* damage is rolled only once the hit is confirmed
DamageDraws(hit) == IF hit THEN DamageRolls ELSE {UnarmedDamage}

\* ---------------------------------------------------------------- commands
\* attack_command(game, player, [target]) with the combat manager present
AttackCommand(p, tgt, ia, it, hit, dmg) ==
  /\ tgt # p /\ (tgt \in players \/ tgt \in room_npcs)
  /\ commands_issued' = commands_issued + 1
  /\ now' = now
  /\ UNCHANGED offCombatVars
  /\ LET started == ~combat.is_active
         c1 == IF started THEN StartCombat(combat, p, tgt, ia, it, now)
               ELSE IF p \notin DOMAIN combat.combatants
               THEN JoinCombat(combat, p, tgt, ia, now)
               ELSE combat
         cur == c1.combatants[p].target
         c2 == [c1 EXCEPT !.combatants[p].state = "Engaged"]
         c3 == [c2 EXCEPT !.combatants[p].target = tgt]
         o == ProcessTurn(c3, health, p, tgt, hit, dmg, now)
         npc_dead == tgt \in Npcs /\ o.h[tgt] <= 0
     IN IF cur # NoName /\ cur = tgt
        THEN /\ combat' = c2
             /\ lastEvent' = Event("attack", p,
                                   IF started THEN "started" ELSE "already")
             /\ Horizon(combat, c2, now, NoName)
             /\ attack_log' = IF started THEN [n \in Names |-> NoLog]
                              ELSE attack_log
             /\ UNCHANGED <<health, room_npcs, experience>>
        ELSE IF cur # NoName
        THEN /\ combat' = c3
             /\ lastEvent' = Event("attack", p, "switched")
             /\ Horizon(combat, c3, now, NoName)
             /\ UNCHANGED <<health, room_npcs, experience, attack_log>>
        ELSE /\ combat' = o.c
             /\ health' = o.h
             /\ lastEvent' = Event("attack", p,
                                   IF o.raised THEN "raised"
                                   ELSE IF o.result.kind = "ok" THEN "hit"
                                   ELSE o.result.message)
             /\ LogAttack(p, c3.round_number, o.result.kind = "ok")
             /\ Horizon(combat, o.c, now, NoName)
             /\ IF ~o.raised /\ o.result.kind = "ok" /\ npc_dead
                THEN /\ experience' = [experience EXCEPT ![p] = @ + ExpGain]
                     /\ room_npcs' = room_npcs \ {tgt}
                ELSE UNCHANGED <<experience, room_npcs>>

\* join_combat_command(game, player, ["combat", target])
JoinCombatCommand(p, tgt, init) ==
  /\ tgt # p
  /\ commands_issued' = commands_issued + 1
  /\ LET acts == combat.is_active /\ p \notin DOMAIN combat.combatants
         c1 == IF acts THEN JoinCombat(combat, p, tgt, init, now) ELSE combat
     IN /\ combat' = c1
        /\ lastEvent' = Event("join", p,
                              IF ~acts THEN "refused"
                              ELSE IF tgt = NoName THEN "joined"
                              ELSE "joined with target")
        /\ Horizon(combat, c1, now, NoName)
  /\ UNCHANGED <<health, room_npcs, experience, now, attack_log>>
  /\ UNCHANGED offCombatVars

\* disengage_command(game, player, [])
DisengageCommand(p) ==
  /\ commands_issued' = commands_issued + 1
  /\ LET acts == combat.is_active /\ p \in DOMAIN combat.combatants
         c1 == IF acts THEN LeaveCombat(combat, p) ELSE combat
     IN /\ combat' = c1
        /\ lastEvent' = Event("disengage", p,
                              IF acts THEN "left" ELSE "refused")
        /\ Horizon(combat, c1, now, NoName)
  /\ UNCHANGED <<health, room_npcs, experience, now, attack_log>>
  /\ UNCHANGED offCombatVars

\* ------------------------------------------------------------------ ticker
\* who the pass makes attack, "none" when it emits no attack
Emitter(c, t) ==
  IF TickBranch(c, t) # "act" THEN NoName
  ELSE IF c.initiative_order[c.current_turn_index + 1][2] = "npc"
  THEN (IF NpcTarget(c, CurrentName(c)) # NoName THEN CurrentName(c)
        ELSE NoName)
  ELSE (IF PlayerPaused(c, CurrentName(c)) THEN NoName ELSE CurrentName(c))

\* one iteration of _combat_tick_loop: sleep, then process_combat_ticks;
\* an exception raised by the pass is caught and printed
HallTick(t, hit, dmg) ==
  LET o == ProcessCombatTicks(combat, health, hit, dmg, t)
      who == Emitter(combat, t)
      branch == TickBranch(combat, t)
  IN /\ combat' = o.c
     /\ health' = o.h
     /\ lastEvent' =
          Event("ticker", CurrentName(combat),
                IF o.raised THEN "raised"
                ELSE IF who # NoName
                THEN (IF o.result.kind = "ok" THEN "hit"
                      ELSE o.result.message)
                ELSE IF branch = "act" THEN "paused"
                ELSE branch)
     /\ LogAttack(who, combat.round_number,
                  who # NoName /\ o.result.kind = "ok")
     /\ Horizon(combat, o.c, t, who)

CombatTickLoop(d, hit, dmg) ==
  /\ now' = now + d
  /\ HallTick(now + d, hit, dmg)
  /\ UNCHANGED <<room_npcs, experience, commands_issued, room_order>>
  /\ UNCHANGED offCombatVars

\* the commands of the connected players in the hall, at most cmds of them
CommandsWithin(cmds) ==
  \/ \E p \in players, tgt \in Names :
       \E ia \in InitiativeRolls(p), it \in InitiativeRolls(tgt),
          hit \in BOOLEAN :
         \E dmg \in DamageDraws(hit) :
           /\ commands_issued < cmds
           /\ AttackCommand(p, tgt, ia, it, hit, dmg)
           /\ GetCombatState("hall")
  \/ \E p \in players, tgt \in Names \cup {NoName} :
       \E init \in InitiativeRolls(p) :
         /\ commands_issued < cmds
         /\ JoinCombatCommand(p, tgt, init)
         /\ GetCombatState("hall")
  \/ \E p \in players :
       /\ commands_issued < cmds
       /\ DisengageCommand(p)
       /\ GetCombatState("hall")

\* commands and ticker passes, interleaved, with the clock running up to time
NextWithin(cmds, time) ==
  \/ CommandsWithin(cmds)
  \/ \E d \in {0, 1}, hit \in BOOLEAN :
       \E dmg \in DamageDraws(hit) :
         now + d <= time /\ CombatTickLoop(d, hit, dmg)

Next == NextWithin(MaxCommands, MaxTime)

Spec == Init /\ [][Next]_vars

NextLong == NextWithin(LongCommands, LongTime)

SpecLong == Init /\ [][NextLong]_vars

\* ------------------------------------------------------------ fair ticker
\* The ticker thread runs for ever, a pass every unit of time. Behaviours
\* without end are kept finite by keeping time relative: the clock stays
\* where it is and every stamp of the combat grows one unit older in its
\* place, down to the age past which IntervalElapsed no longer tells two
\* stamps apart; rounds past FairRounds are not told apart either.
AgeCap == (TurnTimeoutTenths * UnitsPerSecond + 9) \div 10

Older(c, t) ==
  [c EXCEPT
     !.started_at = Max2(@ - 1, t - AgeCap),
     !.turn_started_at = [n \in DOMAIN @ |-> Max2(@[n] - 1, t - AgeCap)]]

SameRounds(c) ==
  [c EXCEPT !.round_number = IF @ > FairRounds THEN FairRounds ELSE @]

\* one iteration of _combat_tick_loop, one unit after the last
FairTick(hit, dmg) ==
  LET aged == Older(combat, now)
      o == ProcessCombatTicks(aged, health, hit, dmg, now)
      who == Emitter(aged, now)
      branch == TickBranch(aged, now)
  IN /\ combat' = SameRounds(o.c)
     /\ health' = o.h
     /\ lastEvent' =
          Event("ticker", CurrentName(aged),
                IF o.raised THEN "raised"
                ELSE IF who # NoName
                THEN (IF o.result.kind = "ok" THEN "hit"
                      ELSE o.result.message)
                ELSE IF branch = "act" THEN "paused"
                ELSE branch)
     /\ passes' = 1 - passes
     /\ UNCHANGED <<now, room_npcs, experience, commands_issued, room_order,
                    attack_log, auto_attacks, horizon_start, turn_since>>
     /\ UNCHANGED <<spawnVars, sessionVars, cellarVars, race, storeVars,
                    calc, worldVars, rateVars, player_room_id,
                    presenceVars, weatherVars, connVars>>

FairTicks ==
  \E hit \in BOOLEAN : \E dmg \in DamageDraws(hit) : FairTick(hit, dmg)

FairNext == CommandsWithin(MaxCommands) \/ FairTicks

\* the steps that change passes are the ticker's passes, and a pass can
\* always be made: the ticker thread is never kept from running
TickerPass == passes' = 1 - passes

FairSpec == Init /\ [][FairNext]_vars /\ WF_passes(TickerPass)

\* ------------------------------------------------------ leaving the room
\* move_command for a player of the hall, through the hall's exit to the
\* cellar, which keeps no hours. It neither reads nor writes the combat
\* manager.
Destinations == {"cellar"}

MoveAway(p, new_room_id) ==
  /\ player_room_id[p] = "hall"
  /\ player_room_id' = [player_room_id EXCEPT ![p] = new_room_id]
  /\ lastEvent' = Event("move", p, new_room_id)
  /\ UNCHANGED <<combat, health, room_npcs, experience, now,
                 commands_issued, attack_log, auto_attacks, horizon_start,
                 turn_since, room_order>>
  /\ UNCHANGED <<spawnVars, sessionVars, cellarVars, race, storeVars, calc,
                 worldVars, rateVars, passes, presenceVars, weatherVars, connVars>>

\* the hall's commands while everybody is in the hall, the ticker, and the
\* players walking out
MoveNext ==
  \/ player_room_id = InTheHall /\ Next
  \/ player_room_id # InTheHall
     /\ \E d \in {0, 1}, hit \in BOOLEAN :
          \E dmg \in DamageDraws(hit) :
            now + d <= MaxTime /\ CombatTickLoop(d, hit, dmg)
  \/ \E p \in players, new_room_id \in Destinations :
       MoveAway(p, new_room_id)

MoveSpec == Init /\ [][MoveNext]_vars

\* ---------------------------------------------------------------- sessions
\* the finally block of handle_websocket_client: remove_player(player_name)
\* deletes the name from MudGame.players and saves the player; the combat
\* manager is not called
RemovePlayer(p) ==
  /\ players' = players \ {p}
  /\ lastEvent' = Event("close", p, "removed")
  /\ UNCHANGED <<combat, health, room_npcs, experience, now, commands_issued,
                 attack_log, auto_attacks, horizon_start, turn_since>>
  /\ UNCHANGED <<spawnVars, storeVars, restVars, cellarVars, room_order, race>>

\* commands, ticker passes and sessions closing, interleaved
SessionNext ==
  \/ NextWithin(MaxCommands, MaxTime)
  \/ \E p \in players : RemovePlayer(p)

SessionSpec == Init /\ [][SessionNext]_vars

\* --------------------------------------------------------------- two rooms
\* attack_command(game, carol, ["orc"]) in the cellar; the cellar's room.npcs
\* and carol's experience are not part of the state.  The cellar's cast
\* rolls initiative 1 and never rolls a critical hit.
CellarAttackCommand(ia, it, hit, dmg) ==
  /\ cellar_commands' = cellar_commands + 1
  /\ GetCombatState("cellar")
  /\ LET p == "carol"
         tgt == "orc"
         started == ~cellar.is_active
         c1 == IF started THEN StartCombat(cellar, p, tgt, ia, it, now)
               ELSE IF p \notin DOMAIN cellar.combatants
               THEN JoinCombat(cellar, p, tgt, ia, now)
               ELSE cellar
         cur == c1.combatants[p].target
         c2 == [c1 EXCEPT !.combatants[p].state = "Engaged"]
         c3 == [c2 EXCEPT !.combatants[p].target = tgt]
         o == ProcessTurn(c3, cellar_health, p, tgt, hit, dmg, now)
     IN IF cur # NoName /\ cur = tgt
        THEN cellar' = c2 /\ cellar_health' = cellar_health
        ELSE IF cur # NoName
        THEN cellar' = c3 /\ cellar_health' = cellar_health
        ELSE cellar' = o.c /\ cellar_health' = o.h
  /\ lastEvent' = Event("attack", "carol", "cellar")
  /\ UNCHANGED <<combat, health, room_npcs, experience, now, commands_issued,
                 attack_log, auto_attacks, horizon_start, turn_since>>
  /\ UNCHANGED <<spawnVars, storeVars, restVars, sessionVars, pass_log, race>>

\* where room_id stands in active_combats, 0 if it has no CombatState yet
Position(room_id) ==
  IF \E i \in 1..Len(room_order) : room_order[i] = room_id
  THEN CHOOSE i \in 1..Len(room_order) : room_order[i] = room_id
  ELSE 0

\* one iteration of _combat_tick_loop with two rooms: process_combat_ticks
\* walks active_combats in insertion order, and an exception raised for one
\* room leaves the for loop and is caught in _combat_tick_loop
CombatTickPass(d, hit, dmg, hit2, dmg2) ==
  /\ now' = now + d
  /\ LET t == now + d
         oh == ProcessCombatTicks(combat, health, hit, dmg, t)
         oc == ProcessCombatTicks(cellar, cellar_health, hit2, dmg2, t)
         Raises(r) == IF r = "hall" THEN oh.raised ELSE oc.raised
         Active(r) == IF r = "hall" THEN combat.is_active
                      ELSE cellar.is_active
         raisers == {i \in 1..Len(room_order) : Raises(room_order[i])}
         stop == IF raisers = {} THEN Len(room_order)
                 ELSE CHOOSE i \in raisers : \A j \in raisers : i <= j
         Reached(r) == Position(r) # 0 /\ Position(r) <= stop
     IN /\ IF Reached("hall") THEN HallTick(t, hit, dmg)
           ELSE /\ lastEvent' = Event("ticker", NoName, "not reached")
                /\ UNCHANGED <<combat, health, attack_log, auto_attacks,
                               horizon_start, turn_since>>
        /\ IF Reached("cellar")
           THEN cellar' = oc.c /\ cellar_health' = oc.h
           ELSE UNCHANGED <<cellar, cellar_health>>
        /\ pass_log' =
             [active |-> {r \in Rooms : Position(r) # 0 /\ Active(r)},
              done |-> {r \in Rooms : Reached(r) /\ ~Raises(r)},
              raiser |-> IF raisers = {} THEN NoName ELSE room_order[stop]]
  /\ UNCHANGED <<room_npcs, experience, commands_issued, room_order,
                 cellar_commands>>
  /\ UNCHANGED <<spawnVars, storeVars, restVars, sessionVars, race>>

RoomsNext ==
  \/ CommandsWithin(RoomsCommands)
  \/ \E hit \in BOOLEAN :
       /\ cellar_commands < MaxCellarCommands
       /\ CellarAttackCommand(1, 1, hit, UnarmedDamage)
  \/ \E d \in {0, 1}, hit \in BOOLEAN, hit2 \in BOOLEAN :
       \E dmg \in DamageDraws(hit) :
         /\ now + d <= RoomsTime
         /\ CombatTickPass(d, hit, dmg, hit2, UnarmedDamage)

RoomsSpec == Init /\ [][RoomsNext]_vars

\* ------------------------------------------------- two threads, one room
\* Commands run on the one worker thread of ws_executor; the tick task runs
\* on an asyncio event loop, which is another thread.  Nothing locks the
\* CombatState, so the interpreter may switch threads between statements.
\* Here the switch points are: inside leave_combat, after the name has been
\* deleted from combatants; inside process_combat_ticks, after the current
\* combatant has been read.  At most one pass overlaps one command.

\* the state an overlap begins from, kept while either thread is inside
Begin(r, t) ==
  IF r.cmd = "idle" /\ r.tick = "idle"
  THEN [r EXCEPT !.overlap = FALSE, !.base_c = combat, !.base_h = health,
                 !.t = t]
  ELSE [r EXCEPT !.overlap = TRUE, !.t = t]

Finish(r) == IF r.cmd = "idle" /\ r.tick = "idle" THEN NoRace ELSE r

\* disengage_command up to "del self.combatants[name]" in remove_combatant
LeaveBegin(p) ==
  /\ race.cmd = "idle"
  /\ ~(race.tick = "picked" /\ race.overlap)
  /\ combat.is_active /\ p \in DOMAIN combat.combatants
  /\ commands_issued' = commands_issued + 1
  /\ GetCombatState("hall")
  /\ LET c1 == [combat EXCEPT
                  !.combatants = Drop(@, p),
                  !.combatant_keys = SelectSeq(@, LAMBDA k : k # p)]
     IN /\ combat' = c1
        /\ Horizon(combat, c1, now, NoName)
  /\ lastEvent' = Event("disengage", p, "leaving")
  /\ race' = [Begin(race, race.t) EXCEPT !.cmd = "half", !.leaver = p]
  /\ UNCHANGED <<health, room_npcs, experience, now, attack_log>>
  /\ UNCHANGED <<spawnVars, storeVars, restVars, sessionVars, cellarVars>>

\* the rest of leave_combat: initiative_order is rebuilt, the slots and the
\* stamp are popped, the combat ends if fewer than two are left
LeaveEnd ==
  /\ race.cmd = "half"
  /\ LET p == race.leaver
         c1 == [combat EXCEPT
                  !.initiative_order = SelectSeq(@, LAMBDA e : e[1] # p),
                  !.turn_actions = Drop(@, p),
                  !.turn_started_at = Drop(@, p)]
         c2 == IF Cardinality(DOMAIN c1.combatants) < 2 THEN EndCombat(c1)
               ELSE c1
     IN /\ combat' = c2
        /\ Horizon(combat, c2, now, NoName)
        /\ lastEvent' = Event("disengage", p, "left")
  /\ race' = Finish([race EXCEPT !.cmd = "idle"])
  /\ UNCHANGED <<health, room_npcs, experience, now, attack_log,
                 commands_issued, room_order>>
  /\ UNCHANGED <<spawnVars, storeVars, restVars, sessionVars, cellarVars>>

\* process_combat_ticks for the room up to "current_turn_info =
\* combat.combatants.get(name)": the pass is over if the room is skipped,
\* ended or the subscript raises, else name, entity_type and the combatant's
\* record are bound
TickPick(d) ==
  /\ race.tick = "idle"
  /\ ~(race.cmd = "half" /\ race.overlap)
  /\ now' = now + d
  /\ LET t == now + d
         b == TickBranch(combat, t)
         c1 == IF b = "end" THEN EndCombat(combat) ELSE combat
         r == Begin(race, t)
     IN /\ combat' = c1
        /\ Horizon(combat, c1, t, NoName)
        /\ IF b \in {"wait", "act"}
           THEN /\ race' = [r EXCEPT
                              !.tick = "picked",
                              !.name = CurrentName(combat),
                              !.etype = combat.initiative_order[
                                          combat.current_turn_index + 1][2],
                              !.target =
                                 combat.combatants[CurrentName(combat)].target]
                /\ lastEvent' = Event("ticker", CurrentName(combat), "picked")
           ELSE /\ race' = Finish(r)
                /\ lastEvent' = Event("ticker", CurrentName(combat), b)
  /\ UNCHANGED <<health, room_npcs, experience, attack_log, commands_issued,
                 room_order>>
  /\ UNCHANGED <<spawnVars, storeVars, restVars, sessionVars, cellarVars>>

\* _process_player_auto_attack and _process_npc_turn for a name that is no
\* longer a key of combatants; info is the record bound by the pass
StaleAutoAttack(c, h, name, etype, info_target, t) ==
  LET tgt == IF etype = "npc"
                /\ (info_target = NoName
                    \/ info_target \notin DOMAIN c.combatants)
             THEN (IF FirstPlayer(c) # NoName THEN FirstPlayer(c)
                   ELSE info_target)
             ELSE info_target
      valid == IF etype = "npc" THEN tgt # NoName
               ELSE tgt # NoName /\ tgt \in DOMAIN c.combatants
  IN IF ~valid \/ ~c.is_active THEN Outcome(c, h, ResNone, FALSE)
     ELSE IF name \notin DOMAIN c.turn_actions
     THEN Outcome(c, h, ResFail("You are not in combat"), TRUE)   \* KeyError
     ELSE Outcome(FailedAttackAdvance(c, name, t), h,
                  ResFail("You are not in combat"), FALSE)

\* process_combat_ticks from "turn_actions = combat.turn_actions.get(...)"
\* on, for the name bound before
ResolveTurn(c, h, name, etype, info_target, hit, dmg, t) ==
  LET acts == IF name \in DOMAIN c.turn_actions THEN c.turn_actions[name]
              ELSE NoAction
      start == IF name \in DOMAIN c.turn_started_at
               THEN c.turn_started_at[name] ELSE c.started_at
  IN IF ~(acts.primary = "none" /\ IntervalElapsed(start, t))
     THEN Outcome(c, h, ResNone, FALSE)
     ELSE IF name \notin DOMAIN c.combatants
     THEN StaleAutoAttack(c, h, name, etype, info_target, t)
     ELSE IF etype = "npc" THEN ProcessNpcTurn(c, h, name, hit, dmg, t)
     ELSE ProcessPlayerAutoAttack(c, h, name, hit, dmg, t)

TickResolve(hit, dmg) ==
  /\ race.tick = "picked"
  /\ LET o == ResolveTurn(combat, health, race.name, race.etype, race.target,
                          hit, dmg, now)
         who == IF o.result = ResNone THEN NoName ELSE race.name
     IN /\ combat' = o.c
        /\ health' = o.h
        /\ lastEvent' = Event("ticker", race.name,
                              IF o.raised THEN "raised"
                              ELSE IF o.result.kind = "ok" THEN "hit"
                              ELSE IF o.result.kind = "fail"
                              THEN o.result.message
                              ELSE "resolved")
        /\ LogAttack(who, combat.round_number, o.result.kind = "ok")
        /\ Horizon(combat, o.c, now, who)
  /\ race' = Finish([race EXCEPT !.tick = "idle", !.name = NoName,
                                 !.etype = "none", !.target = NoName])
  /\ UNCHANGED <<room_npcs, experience, now, commands_issued, room_order>>
  /\ UNCHANGED <<spawnVars, storeVars, restVars, sessionVars, cellarVars>>

RaceNext ==
  \/ race = NoRace /\ CommandsWithin(RaceCommands)
  \/ \E p \in players : commands_issued < RaceCommands /\ LeaveBegin(p)
  \/ LeaveEnd
  \/ \E d \in {0, 1} : now + d <= RaceTime /\ TickPick(d)
  \/ \E hit \in BOOLEAN : \E dmg \in DamageDraws(hit) : TickResolve(hit, dmg)

RaceSpec == Init /\ [][RaceNext]_vars

\* ------------------------------------------------------ spawn eligibility
\* RuntimeStateService(data_layer=None), a FirebaseDataLayer, or a data
\* layer over the document store of the storage interface, which has the
\* room_state, entity_instance and entity_position collections and a
\* transaction primitive
DataLayers == {"None", "FirebaseDataLayer", "DocumentStore"}

\* _enabled
Enabled(dl) == dl # "None"

\* hasattr(self.data_layer, "run_room_state_transaction"): FirebaseDataLayer
\* defines no method of that name
HasRunRoomStateTransaction(dl) == dl = "DocumentStore"

\* _do without the test of now against next_spawn_at
DoConsumeIgnoringCooldown(entry, max_alive, cooldown, t) ==
  IF entry.alive_count < max_alive
  THEN [ok |-> TRUE,
        entry |-> [alive_count |-> entry.alive_count + 1,
                   last_spawn_at |-> t,
                   next_spawn_at |-> t + cooldown]]
  ELSE [ok |-> FALSE, entry |-> entry]

\* the closure _do applied to the timer entry read in the transaction
DoConsume(entry, max_alive, cooldown, t) ==
  IF entry.alive_count < max_alive /\ t >= entry.next_spawn_at
  THEN [ok |-> TRUE,
        entry |-> [alive_count |-> entry.alive_count + 1,
                   last_spawn_at |-> t,
                   next_spawn_at |-> t + cooldown]]
  ELSE [ok |-> FALSE, entry |-> entry]

\* the store's transaction: the function gets a snapshot of the document,
\* what it returns is written in the same commit, and its verdict is handed
\* back to the caller
RunRoomStateTransaction(snapshot, max_alive, cooldown, t) ==
  DoConsume(snapshot, max_alive, cooldown, t)

\* try_consume_spawn_eligibility: the value returned and the timer entry
\* left in the store; t is the now read before the transaction
TryConsumeSpawnEligibility(dl, entry, max_alive, cooldown, t) ==
  IF ~Enabled(dl) \/ ~HasRunRoomStateTransaction(dl)
  THEN [ok |-> FALSE, entry |-> entry]
  ELSE RunRoomStateTransaction(entry, max_alive, cooldown, t)

\* caller k enters try_consume_spawn_eligibility(room, spawn, max_alive=m):
\* it returns False at once without a transaction primitive, else reads now
TryConsumeCall(k, m) ==
  /\ consumers[k].pc = "idle"
  /\ consumers' = [consumers EXCEPT
                     ![k] = [pc |-> IF Enabled(data_layer)
                                       /\ HasRunRoomStateTransaction(data_layer)
                                    THEN "called" ELSE "done",
                             max_alive |-> m, result |-> FALSE,
                             now |-> spawn_now]]
  /\ UNCHANGED <<data_layer, spawn_now, room_state>>
  /\ UNCHANGED offSpawnVars

\* the transaction of caller k commits
TryConsume(k) ==
  /\ consumers[k].pc = "called"
  /\ LET r == TryConsumeSpawnEligibility(data_layer, room_state,
                                         consumers[k].max_alive,
                                         DefaultCooldown, consumers[k].now)
     IN /\ room_state' = r.entry
        /\ consumers' = [consumers EXCEPT ![k].pc = "done",
                                          ![k].result = r.ok]
  /\ UNCHANGED <<data_layer, spawn_now>>
  /\ UNCHANGED offSpawnVars

\* time.time() moves on between calls
SpawnClock ==
  /\ spawn_now < MaxSpawnTime
  /\ spawn_now' = spawn_now + 1
  /\ UNCHANGED <<data_layer, room_state, consumers>>
  /\ UNCHANGED offSpawnVars

SpawnInit ==
  /\ CombatInitVars
  /\ data_layer \in DataLayers
  /\ SpawnInitVars
  /\ StoreInitVars
  /\ RestInitVars

SpawnNext ==
  \/ \E k \in Callers, m \in 1..MaxAliveArg : TryConsumeCall(k, m)
  \/ \E k \in Callers : TryConsume(k)
  \/ SpawnClock

SpawnSpec == SpawnInit /\ [][SpawnNext]_vars

\* ------------------------------------------------- entity instance layer
\* the data layer has the methods of the room_state, entity_instance and
\* entity_position collections; FirebaseDataLayer defines none of them, so
\* a call on it raises AttributeError
HasRuntimeCollections(dl) == dl = "DocumentStore"

Call(op, room_id, t, raised, out) ==
  [seq |-> store_ops + 1, op |-> op, room |-> room_id, t |-> t,
   raised |-> raised, out |-> out,
   prev |-> <<store_log.op, store_log.room, store_log.t>>,
   outcome |-> "none", rolled_at |-> store_log.rolled_at]

\* the store's per-record operations on entity_position and entity_instance
LoadEntityPositionsForRoom(pos, room_id) == {i \in Uuids : pos[i] = room_id}

LoadEntityInstance(inst, instance_id) == inst[instance_id]

SaveEntityInstance(inst, instance_id, data) ==
  [inst EXCEPT ![instance_id] = data]

SaveEntityPosition(pos, instance_id, room_id) ==
  [pos EXCEPT ![instance_id] = room_id]

DeleteEntityPosition(pos, instance_id) == [pos EXCEPT ![instance_id] = "none"]

DeleteEntityInstance(inst, instance_id) ==
  [inst EXCEPT ![instance_id] = NoInstance]

\* remove_entity_from_world on an enabled service, for a non-empty id
RemoveEntityFromWorld(inst, pos, instance_id, delete_instance) ==
  [pos |-> DeleteEntityPosition(pos, instance_id),
   inst |-> IF delete_instance THEN DeleteEntityInstance(inst, instance_id)
            ELSE inst]

\* expires_at is not None and expires_at < now
ExpiredStrictly(data, t) == data.expires_at # Absent /\ data.expires_at < t

\* expires_at is not None and expires_at <= now
Expired(data, t) == data.expires_at # Absent /\ data.expires_at <= t

\* {**inst, "instance_id": instance_id, **pos}
Combined(data, instance_id, room_id) ==
  [instance_id |-> instance_id, template_id |-> data.template_id,
   created_at |-> data.created_at, expires_at |-> data.expires_at,
   encounter_id |-> data.encounter_id, room_id |-> room_id]

\* the for loop of get_entities_in_room over the positions still to visit
RECURSIVE EntitiesLoop(_, _, _, _, _)
EntitiesLoop(positions, inst, pos, room_id, t) ==
  IF positions = {} THEN [out |-> {}, inst |-> inst, pos |-> pos]
  ELSE LET instance_id == CHOOSE i \in positions : TRUE
           rest == positions \ {instance_id}
           data == LoadEntityInstance(inst, instance_id)
       IN IF ~data.exists THEN EntitiesLoop(rest, inst, pos, room_id, t)
          ELSE IF Expired(data, t)
          THEN LET w == RemoveEntityFromWorld(inst, pos, instance_id, TRUE)
               IN EntitiesLoop(rest, w.inst, w.pos, room_id, t)
          ELSE LET r == EntitiesLoop(rest, inst, pos, room_id, t)
               IN [r EXCEPT
                     !.out = @ \cup {Combined(data, instance_id, room_id)}]

\* get_entities_in_room(room_id) at time t
GetEntitiesInRoom(room_id) ==
  /\ store_ops < MaxStoreOps
  /\ store_ops' = store_ops + 1
  /\ IF ~Enabled(data_layer)
     THEN /\ store_log' = Call("get_entities_in_room", room_id, spawn_now,
                               FALSE, {})
          /\ UNCHANGED <<entity_instance, entity_position>>
     ELSE IF ~HasRuntimeCollections(data_layer)
     THEN /\ store_log' = Call("get_entities_in_room", room_id, spawn_now,
                               TRUE, {})
          /\ UNCHANGED <<entity_instance, entity_position>>
     ELSE LET r == EntitiesLoop(
                     LoadEntityPositionsForRoom(entity_position, room_id),
                     entity_instance, entity_position, room_id, spawn_now)
          IN /\ store_log' = Call("get_entities_in_room", room_id, spawn_now,
                                  FALSE, r.out)
             /\ entity_instance' = r.inst
             /\ entity_position' = r.pos
  /\ UNCHANGED <<room_doc, uuids, rollers, spawn_now>>
  /\ UNCHANGED offStoreVars

\* the record create_entity_instance saves for a creature
InstanceData(template_id, t, expires_at, encounter_id, hp_current, hp_max) ==
  [exists |-> TRUE, template_id |-> template_id, created_at |-> t,
   expires_at |-> expires_at, encounter_id |-> encounter_id,
   hp_current |-> hp_current, hp_max |-> hp_max]

\* create_entity_instance(template_id, "creature", expires_at=..): the id is
\* a fresh uuid4
CreateEntityInstance(template_id, expires_at) ==
  /\ store_ops < MaxStoreOps
  /\ uuids < MaxUuids
  /\ store_ops' = store_ops + 1
  /\ IF ~Enabled(data_layer)
     THEN /\ store_log' = Call("create_entity_instance", "none", spawn_now,
                               FALSE, {})
          /\ UNCHANGED <<entity_instance, uuids>>
     ELSE /\ uuids' = uuids + 1
          /\ IF ~HasRuntimeCollections(data_layer)
             THEN /\ store_log' = Call("create_entity_instance", "none",
                                       spawn_now, TRUE, {})
                  /\ UNCHANGED entity_instance
             ELSE /\ store_log' = Call("create_entity_instance", "none",
                                       spawn_now, FALSE, {uuids + 1})
                  /\ entity_instance' =
                       SaveEntityInstance(entity_instance, uuids + 1,
                         InstanceData(template_id, spawn_now, expires_at,
                                      Absent, Absent, Absent))
  /\ UNCHANGED <<room_doc, entity_position, rollers, spawn_now>>
  /\ UNCHANGED offStoreVars

\* place_entity(instance_id, room_id) for an id create_entity_instance gave
PlaceEntity(instance_id, room_id) ==
  /\ store_ops < MaxStoreOps
  /\ instance_id <= uuids
  /\ store_ops' = store_ops + 1
  /\ IF ~Enabled(data_layer)
     THEN /\ store_log' = Call("place_entity", room_id, spawn_now, FALSE, {})
          /\ UNCHANGED entity_position
     ELSE IF ~HasRuntimeCollections(data_layer)
     THEN /\ store_log' = Call("place_entity", room_id, spawn_now, TRUE, {})
          /\ UNCHANGED entity_position
     ELSE /\ store_log' = Call("place_entity", room_id, spawn_now, FALSE,
                               {instance_id})
          /\ entity_position' =
               SaveEntityPosition(entity_position, instance_id, room_id)
  /\ UNCHANGED <<room_doc, entity_instance, uuids, rollers, spawn_now>>
  /\ UNCHANGED offStoreVars

\* time.time() moves on by d seconds between two calls
StoreClock(d) ==
  /\ store_ops < MaxStoreOps
  /\ store_ops' = store_ops + 1
  /\ spawn_now' = spawn_now + d
  /\ UNCHANGED <<room_doc, entity_instance, entity_position, uuids,
                 store_log, rollers>>
  /\ UNCHANGED offStoreVars

Templates == {"goblin"}

EntityNext ==
  \/ \E tpl \in Templates, e \in {Absent} \cup 0..MaxExpiry :
       CreateEntityInstance(tpl, e)
  \/ \E i \in Uuids, r \in Rooms : PlaceEntity(i, r)
  \/ \E r \in Rooms : GetEntitiesInRoom(r)
  \/ StoreClock(1)

EntitySpec == SpawnInit /\ [][EntityNext]_vars

\* ------------------------------------------------------------ room reset
\* the store's per-record operations on room_state
LoadRoomState(docs, room_id) == docs[room_id]

SaveRoomState(docs, room_id, state) == [docs EXCEPT ![room_id] = state]

\* int(now) % (2 ** 31); the clock of the model stays below 2 ** 31
Seed(t) == t

\* get_or_create_room_state on an enabled service: the state returned and
\* the collection it leaves
GetOrCreateRoomState(docs, room_id, t) ==
  LET state == LoadRoomState(docs, room_id)
      created == [exists |-> TRUE, seed |-> Seed(t), created_at |-> t,
                  last_active_at |-> t, last_reset_at |-> t,
                  next_reset_at |-> t + DEFAULT_RESET_SECONDS,
                  state_version |-> 1, last_encounter_roll_at |-> Absent]
  IN IF state.exists THEN [state |-> state, docs |-> docs]
     ELSE [state |-> created, docs |-> SaveRoomState(docs, room_id, created)]

\* the reset with next_reset_at left where it was
ResetKeepingWindow(state, t) ==
  [state EXCEPT !.last_reset_at = t,
                !.seed = Seed(t),
                !.state_version = @ + 1]

\* the body of `if state.get("next_reset_at", 0) <= now`
Reset(state, t) ==
  [state EXCEPT !.last_reset_at = t,
                !.next_reset_at = t + DEFAULT_RESET_SECONDS,
                !.seed = Seed(t),
                !.state_version = @ + 1]

\* maybe_reset_room(room_id)
MaybeResetRoom(room_id) ==
  /\ store_ops < MaxStoreOps
  /\ store_ops' = store_ops + 1
  /\ IF ~Enabled(data_layer)
     THEN /\ store_log' = Call("maybe_reset_room", room_id, spawn_now,
                               FALSE, {})
          /\ UNCHANGED room_doc
     ELSE IF ~HasRuntimeCollections(data_layer)
     THEN /\ store_log' = Call("maybe_reset_room", room_id, spawn_now,
                               TRUE, {})
          /\ UNCHANGED room_doc
     ELSE LET g == GetOrCreateRoomState(room_doc, room_id, spawn_now)
          IN /\ store_log' = Call("maybe_reset_room", room_id, spawn_now,
                                  FALSE, {})
             /\ room_doc' =
                  IF g.state.next_reset_at <= spawn_now
                  THEN SaveRoomState(g.docs, room_id,
                                     Reset(g.state, spawn_now))
                  ELSE g.docs
  /\ UNCHANGED <<entity_instance, entity_position, uuids, rollers, spawn_now>>
  /\ UNCHANGED offStoreVars

\* a second goes by, or a whole reset window
ResetJumps == {1, DEFAULT_RESET_SECONDS}

ResetNext ==
  \/ \E r \in Rooms : MaybeResetRoom(r)
  \/ \E d \in ResetJumps : StoreClock(d)

ResetSpec == SpawnInit /\ [][ResetNext]_vars

\* ------------------------------------------------------------ spawn slots
\* the caller of try_consume_spawn_eligibility has its answer and goes;
\* the next call is a call of its own
TryConsumeReturn(k) ==
  /\ consumers[k].pc = "done"
  /\ consumers' = [consumers EXCEPT ![k] = Idle]
  /\ UNCHANGED <<data_layer, spawn_now, room_state>>
  /\ UNCHANGED offSpawnVars

\* one session that comes back to the spawn point again and again
SlotCallers == {1}

SlotCalls ==
  \E k \in SlotCallers :
    \/ \E m \in 1..MaxAliveArg : TryConsumeCall(k, m)
    \/ TryConsume(k)
    \/ TryConsumeReturn(k)

\* a whole spawn cooldown goes by
SlotJumps == {DefaultCooldown}

\* expires_at of the instances spawned: none, or gone at once
SlotExpiry == {Absent, 0}

\* the calls for eligibility, the life of the instances (created, placed,
\* culled when expired), the room's reset, and the clock
SlotNext ==
  \/ SlotCalls
  \/ \E tpl \in Templates, e \in SlotExpiry : CreateEntityInstance(tpl, e)
  \/ uuids > 0 /\ PlaceEntity(uuids, "hall")
  \/ GetEntitiesInRoom("hall")
  \/ MaybeResetRoom("hall")
  \/ \E d \in SlotJumps : StoreClock(d)

\* the session keeps calling
SlotFairSpec == SpawnInit /\ [][SlotNext]_vars /\ WF_vars(SlotCalls)

\* ------------------------------------------------------ encounter service
\* random.random() > ENCOUNTER_ROLL_CHANCE is false, or true
ChanceDraws == BOOLEAN

\* zone_encounter_tables[zone]: (min_roll, max_roll, encounter_type,
\* composition_key); the last face of the die is in no row
ZoneTable ==
  <<[min_roll |-> 1, max_roll |-> 1, encounter_type |-> "combat",
     composition_key |-> "goblin_pack"],
    [min_roll |-> 2, max_roll |-> 2, encounter_type |-> "combat",
     composition_key |-> "wolf_pack"],
    [min_roll |-> 3, max_roll |-> 3, encounter_type |-> "flavor",
     composition_key |-> "none"]>>

NoRow ==
  [min_roll |-> 0, max_roll |-> 0, encounter_type |-> "none",
   composition_key |-> "none"]

\* encounter_compositions: (template_id, min_count, max_count); wolf_pack
\* is named by the table and defined by no composition
EncounterCompositions ==
  [goblin_pack |-> [template_id |-> "goblin", min_count |-> 1,
                    max_count |-> 2]]

\* for min_r, max_r, etype, comp_key in table: the first row that holds roll
MatchRow(table, roll) ==
  IF \E n \in 1..Len(table) :
       table[n].min_roll <= roll /\ roll <= table[n].max_roll
  THEN table[CHOOSE n \in 1..Len(table) :
               /\ table[n].min_roll <= roll /\ roll <= table[n].max_roll
               /\ \A q \in 1..(n - 1) :
                    ~(table[q].min_roll <= roll /\ roll <= table[q].max_roll)]
  ELSE NoRow

\* state.get("last_encounter_roll_at", 0)
LastEncounterRollAt(state) ==
  IF state.last_encounter_roll_at = Absent THEN 0
  ELSE state.last_encounter_roll_at

\* set_room_state_fields(room_id, last_encounter_roll_at=value) called at
\* time t on an enabled service: the record is loaded anew
SetRoomStateFields(docs, room_id, value, t) ==
  LET g == GetOrCreateRoomState(docs, room_id, t)
  IN SaveRoomState(g.docs, room_id,
                   [g.state EXCEPT !.last_encounter_roll_at = value])

\* now - last_roll < ENCOUNTER_COOLDOWN_SECONDS
Cooldown(state, t) ==
  t - LastEncounterRollAt(state) < ENCOUNTER_COOLDOWN_SECONDS

\* getattr(template, "max_health", getattr(template, "health", 10)) for a
\* template of the catalog: every NPC carries max_health
HpMaxFallback(template_id) == 10

HpMax(template_id) == NpcMaxHealth

\* create_entity_instance and place_entity for count creatures that share
\* encounter_id; ids are the uuid4 values after it
RECURSIVE SpawnGroup(_, _, _, _, _, _, _)
SpawnGroup(inst, pos, template_id, room_id, encounter_id, count, t) ==
  IF count = 0 THEN [inst |-> inst, pos |-> pos]
  ELSE LET r == SpawnGroup(inst, pos, template_id, room_id, encounter_id,
                           count - 1, t)
           instance_id == encounter_id + count
       IN [inst |-> SaveEntityInstance(r.inst, instance_id,
                      InstanceData(template_id, t, Absent, encounter_id,
                                   HpMax(template_id), HpMax(template_id))),
           pos |-> SaveEntityPosition(r.pos, instance_id, room_id)]

\* roll_random_encounter from the chance draw on, for an enabled service
\* over the store: state and roll_now are what the call read at its start,
\* t is the time of its writes, n the uuid4 values drawn so far
RollOutcome(docs, inst, pos, n, room_id, state, roll_now, t, chance, roll, count) ==
  LET same(outcome) ==
        [outcome |-> outcome, docs |-> docs, inst |-> inst, pos |-> pos,
         uuids |-> n, out |-> {}]
      matched == MatchRow(ZoneTable, roll)
  IN IF ~chance THEN same("chance")
     ELSE IF Cooldown(state, roll_now) THEN same("cooldown")
     ELSE IF matched = NoRow THEN same("no_row")
     ELSE IF matched.encounter_type # "combat"
             \/ matched.composition_key = "none"
     THEN [same("non_combat") EXCEPT
             !.docs = SetRoomStateFields(docs, room_id, roll_now, t)]
     ELSE IF matched.composition_key \notin DOMAIN EncounterCompositions
     THEN same("no_composition")
     ELSE LET composition == EncounterCompositions[matched.composition_key]
              g == SpawnGroup(inst, pos, composition.template_id, room_id,
                              n + 1, count, t)
          IN [outcome |-> "spawned",
              docs |-> SetRoomStateFields(docs, room_id, roll_now, t),
              inst |-> g.inst, pos |-> g.pos, uuids |-> n + 1 + count,
              out |-> (n + 2)..(n + 1 + count)]

\* the rolls that got past the chance draw and the cooldown test
PastTheGates == {"no_row", "non_combat", "no_composition", "spawned"}

RollCall(room_id, roll_now, raised, out, outcome) ==
  [Call("roll_random_encounter", room_id, roll_now, raised, out) EXCEPT
     !.outcome = outcome,
     !.rolled_at = IF outcome \in PastTheGates
                   THEN [@ EXCEPT ![room_id] = roll_now] ELSE @]

\* roll_random_encounter up to now = time.time(): session k has entered
\* room_id; the room record is read, and created if it is not there
RollBegin(k, room_id) ==
  /\ store_ops < MaxStoreOps
  /\ rollers[k].pc = "idle"
  /\ store_ops' = store_ops + 1
  /\ IF ~Enabled(data_layer)
     THEN /\ rollers' = [rollers EXCEPT
                           ![k] = [pc |-> "read", room |-> room_id,
                                   state |-> NoDoc, now |-> spawn_now]]
          /\ UNCHANGED <<room_doc, store_log>>
     ELSE IF ~HasRuntimeCollections(data_layer)
     THEN /\ store_log' = RollCall(room_id, spawn_now, TRUE, {}, "none")
          /\ UNCHANGED <<room_doc, rollers>>
     ELSE LET g == GetOrCreateRoomState(room_doc, room_id, spawn_now)
          IN /\ room_doc' = g.docs
             /\ rollers' = [rollers EXCEPT
                              ![k] = [pc |-> "read", room |-> room_id,
                                      state |-> g.state, now |-> spawn_now]]
             /\ UNCHANGED store_log
  /\ UNCHANGED <<entity_instance, entity_position, uuids, spawn_now>>
  /\ UNCHANGED offStoreVars

\* the rest of the call of session k. With data_layer None nothing is
\* stored: set_room_state_fields and place_entity return at once and
\* create_entity_instance returns ""
RollEnd(k, chance, roll, count) ==
  /\ rollers[k].pc = "read"
  /\ store_ops' = store_ops + 1
  /\ rollers' = [rollers EXCEPT ![k] = NoRoll]
  /\ LET r == RollOutcome(room_doc, entity_instance, entity_position, uuids,
                          rollers[k].room, rollers[k].state, rollers[k].now,
                          spawn_now, chance, roll, count)
     IN IF Enabled(data_layer)
        THEN /\ r.uuids <= MaxUuids
             /\ room_doc' = r.docs
             /\ entity_instance' = r.inst
             /\ entity_position' = r.pos
             /\ uuids' = r.uuids
             /\ store_log' = RollCall(rollers[k].room, rollers[k].now, FALSE,
                                      r.out, r.outcome)
        ELSE /\ store_log' = RollCall(rollers[k].room, rollers[k].now, FALSE,
                                      {}, r.outcome)
             /\ r.outcome = "spawned" => uuids < MaxUuids
             /\ uuids' = IF r.outcome = "spawned" THEN uuids + 1 ELSE uuids
             /\ UNCHANGED <<room_doc, entity_instance, entity_position>>
  /\ UNCHANGED spawn_now
  /\ UNCHANGED offStoreVars

\* what roll_random_encounter draws: the chance, the die, the group's size
RollEndAny(k) ==
  \E chance \in ChanceDraws, roll \in 1..DieFaces :
    \E count \in EncounterCompositions.goblin_pack.min_count ..
                  EncounterCompositions.goblin_pack.max_count :
      RollEnd(k, chance, roll, count)

\* a second goes by, or a whole cooldown
RollJumps == {1, ENCOUNTER_COOLDOWN_SECONDS}

\* the sessions' calls one after the other: a call is begun only when no
\* other is under way
EncounterNext ==
  \/ \E k \in Sessions, r \in Rooms :
       (\A q \in Sessions : rollers[q].pc = "idle") /\ RollBegin(k, r)
  \/ \E k \in Sessions : RollEndAny(k)
  \/ \E d \in RollJumps : (\A q \in Sessions : rollers[q].pc = "idle")
                           /\ StoreClock(d)

EncounterSpec == SpawnInit /\ [][EncounterNext]_vars

\* two sessions, each on a thread of its own: the call of the one may
\* begin while the call of the other is under way
EncounterRaceNext ==
  \/ \E k \in Sessions, r \in Rooms : RollBegin(k, r)
  \/ \E k \in Sessions : RollEndAny(k)
  \/ \E d \in RollJumps : StoreClock(d)

EncounterRaceSpec == SpawnInit /\ [][EncounterRaceNext]_vars

\* ------------------------------------------------------------ hit contest
\* every action of the parts below leaves all of this alone
offRestVars == <<combatVars, spawnVars, sessionVars, cellarVars, room_order,
                 race, storeVars, worldVars, rateVars, passes,
                 player_room_id, presenceVars, weatherVars, connVars>>

\* the state every function call is made in
RestInit ==
  /\ CombatInitVars
  /\ data_layer = "FirebaseDataLayer"
  /\ SpawnInitVars
  /\ StoreInitVars
  /\ WorldInitVars
  /\ RateInitVars
  /\ passes = 0
  /\ player_room_id = InTheHall
  /\ PresenceInitVars
  /\ WeatherInitVars
  /\ ConnInitVars

Kinds == {"player", "npc"}

\* get_effective_skill("fighting"), get_effective_skill("dodging") of the
\* players; an NPC's check is taken at 50 whatever its skill
SkillLevels == {30}

\* roll_skill_check: Player's result carries "effective_skill", NPC's does
\* not (it carries the skill under "skill")
RollSkillCheck(kind, skill, roll) ==
  [roll |-> roll,
   effective_skill |-> IF kind = "player" THEN skill ELSE Absent,
   result |-> IF roll <= skill \div 10 THEN "critical"
              ELSE IF roll <= skill THEN "success"
              ELSE IF kind = "player" /\ roll >= 95 THEN "critical_failure"
              ELSE "failure"]

\* check.get("effective_skill", 50)
EffectiveSkill(check) ==
  IF check.effective_skill = Absent THEN DefaultEffective
  ELSE check.effective_skill

\* the contest in which a tie of the two rolls lands
HitOnTies(attacker_roll, attacker_effective, defender_roll, defender_effective) ==
  /\ attacker_roll <= attacker_effective
  /\ \/ attacker_roll <= defender_roll
     \/ defender_roll > defender_effective

\* hit, as _process_attack decides it
Hit(attacker_roll, attacker_effective, defender_roll, defender_effective) ==
  /\ attacker_roll <= attacker_effective
  /\ \/ attacker_roll < defender_roll
     \/ defender_roll > defender_effective

\* the two skill checks and the hit determination of one _process_attack
Contest(attacker_roll, defender_roll) ==
  /\ calc.pc = "contest"
  /\ LET accuracy_check == RollSkillCheck(calc.attacker, calc.fighting,
                                          attacker_roll)
         dodge_check == RollSkillCheck(calc.target, calc.dodging,
                                       defender_roll)
     IN calc' = [pc |-> "contest_done",
                 attacker_roll |-> accuracy_check.roll,
                 attacker_effective |-> EffectiveSkill(accuracy_check),
                 defender_roll |-> dodge_check.roll,
                 defender_effective |-> EffectiveSkill(dodge_check),
                 hit |-> Hit(accuracy_check.roll,
                             EffectiveSkill(accuracy_check),
                             dodge_check.roll, EffectiveSkill(dodge_check))]
  /\ UNCHANGED offRestVars

ContestInit ==
  /\ RestInit
  /\ calc \in [pc : {"contest"}, attacker : Kinds, fighting : SkillLevels,
               target : Kinds, dodging : SkillLevels]

ContestNext ==
  \E attacker_roll \in 1..D100, defender_roll \in 1..D100 :
    Contest(attacker_roll, defender_roll)

ContestSpec == ContestInit /\ [][ContestNext]_vars

\* ------------------------------------------------- damage, weapon, armor
\* get_attribute_bonus: (attribute - 5) // 2
AttributeBonus(attribute) == (attribute - 5) \div 2

\* int(round(n / d)) for d > 0: Python rounds halves to the even neighbour
RoundHalfEven(n, d) ==
  LET q == n \div d
      r == n - q * d
  IN IF 2 * r < d THEN q
     ELSE IF 2 * r > d THEN q + 1
     ELSE IF q % 2 = 0 THEN q ELSE q + 1

RECURSIVE SumSeq(_)
SumSeq(xs) == IF xs = <<>> THEN 0 ELSE Head(xs) + SumSeq(Tail(xs))

\* hasattr(piece, 'reduce_armor_hp'): Item defines no such method
HasReduceArmorHp == FALSE

\* apply_armor_damage_reduction for a target with the given pieces, each
\* [dr, armor_hp], in ARMOR_SLOTS order: the damage returned, the share
\* assigned to each piece (0 for a piece that does not contribute) and the
\* pieces afterwards
ApplyArmorDamageReduction(damage, pieces) ==
  LET slots == 1..Len(pieces)
      contributes(n) == pieces[n].dr > 0
      total_dr == SumSeq([n \in slots |->
                            IF contributes(n) THEN pieces[n].dr ELSE 0])
      damage_after == Max2(1, damage - total_dr)
      absorbed == damage - damage_after
      share(n) == IF contributes(n)
                  THEN Max2(0, RoundHalfEven(absorbed * pieces[n].dr,
                                             total_dr))
                  ELSE 0
  IN IF \A n \in slots : ~contributes(n)
     THEN [damage |-> damage, mitigated |-> 0,
           shares |-> [n \in slots |-> 0], pieces |-> pieces]
     ELSE [damage |-> damage_after, mitigated |-> absorbed,
           shares |-> [n \in slots |-> share(n)],
           pieces |-> [n \in slots |->
                         IF share(n) > 0 /\ HasReduceArmorHp
                         THEN [pieces[n] EXCEPT
                                 !.armor_hp = Max2(0, @ - share(n))]
                         ELSE pieces[n]]]

\* damage of a hit from its base damage
HitDamage(base_damage, is_critical, is_glancing) ==
  IF is_critical THEN base_damage * 2
  ELSE IF is_glancing THEN Max2(1, base_damage \div 2)
  ELSE base_damage

\* Item.reduce_durability(amount): the durability left
ReduceDurability(current_durability, amount) ==
  Max2(0, current_durability - amount)

\* _process_attack from HIT CONFIRMED on: the weapon's roll, the critical
\* and glancing flags are the draws
ProcessAttackDamage(roll, is_critical, is_glancing) ==
  /\ calc.pc = "attack"
  /\ LET base_damage == IF calc.armed
                        THEN roll + AttributeBonus(calc.physical)
                        ELSE UnarmedDamage
         damage == HitDamage(base_damage, is_critical, is_glancing)
         armor == ApplyArmorDamageReduction(damage, calc.pieces)
     IN calc' = [pc |-> "attack_done",
                 armed |-> calc.armed,
                 weapon_equipped |-> calc.armed,
                 weapon_in_inventory |-> calc.armed,
                 durability_before |-> calc.durability,
                 durability |-> IF calc.armed
                                THEN ReduceDurability(calc.durability, 1)
                                ELSE calc.durability,
                 raw_damage |-> damage,
                 damage |-> armor.damage,
                 mitigated |-> armor.mitigated,
                 shares |-> armor.shares,
                 pieces_before |-> calc.pieces,
                 pieces |-> armor.pieces,
                 health_before |-> calc.health,
                 health |-> Max2(0, calc.health - armor.damage)]
  /\ UNCHANGED offRestVars

\* attributes["physical"]: below 5 the bonus is negative
PhysicalLevels == {1, 5, 10}

PieceKinds == [dr : 0..MaxDR, armor_hp : {MaxArmorHp}]

ArmorSets == UNION {[1..n -> PieceKinds] : n \in 0..MaxPieces}

AttackInit ==
  /\ RestInit
  /\ calc \in [pc : {"attack"}, armed : BOOLEAN, physical : PhysicalLevels,
               durability : 1..MaxDurability, health : 1..MaxHealth,
               pieces : ArmorSets]

AttackNext ==
  \E roll \in 1..MaxWeaponDamage, is_critical \in BOOLEAN,
     is_glancing \in BOOLEAN :
    ProcessAttackDamage(roll, is_critical, is_glancing)

AttackSpec == AttackInit /\ [][AttackNext]_vars

\* ------------------------------------------------------------ world clock
\* A handler reads time.time() once: the clock does not move while a
\* handler runs.
offWorldVars == <<combatVars, spawnVars, sessionVars, cellarVars, room_order,
                  race, storeVars, calc, rateVars, passes, player_room_id,
                  presenceVars, weatherVars, connVars>>

\* int(x) for x = n / d, d > 0: truncation toward zero
Truncate(n, d) == IF n >= 0 THEN n \div d ELSE -((-n) \div d)

\* WorldTime.get_world_seconds at real time t; the first definition rounds
\* to the nearest second where the code truncates
GetWorldSecondsRounded(wt, t) ==
  wt.start_world_seconds
    + Truncate(2 * (t - wt.start_real_time) * TIME_RATIO + UnitsPerSecond,
          2 * UnitsPerSecond)

GetWorldSeconds(wt, t) ==
  wt.start_world_seconds
    + Truncate((t - wt.start_real_time) * TIME_RATIO, UnitsPerSecond)

\* WorldTime.set_world_seconds at real time t
SetWorldSeconds(world_seconds, t) ==
  [start_real_time |-> t, start_world_seconds |-> world_seconds]

GetDayNumber(world_seconds) == world_seconds \div SecondsPerDay

GetHour(world_seconds) == (world_seconds % SecondsPerDay) \div SecondsPerHour

GetMinute(world_seconds) == (world_seconds % SecondsPerHour) \div 60

\* time.time() moves on by one unit
ClockTick ==
  /\ real_time < MaxRealTime
  /\ real_time' = real_time + 1
  /\ UNCHANGED <<world_time, clock_log, travel, offWorldVars>>

\* a caller reads get_world_seconds(); keep says whether the history keeps
\* its earlier reading or takes this one in its place
ReadClock(keep) ==
  LET reading == [t |-> real_time,
                  world_seconds |-> GetWorldSeconds(world_time, real_time)]
  IN /\ clock_log' = [clock_log EXCEPT
                        !.op = "read", !.last = reading,
                        !.mark = IF keep /\ clock_log.mark.t # Absent
                                 THEN @ ELSE reading]
     /\ UNCHANGED <<world_time, real_time, travel, offWorldVars>>

\* a word of a command line: int(word) is val when the word is a number
\* and raises ValueError otherwise
Number(val) == [numeric |-> TRUE, val |-> val]

Junk == [numeric |-> FALSE, val |-> 0]

\* set_time_command(player, args)
SetTimeCommand(args) ==
  LET converted == 1..(IF Len(args) > 3 THEN 3 ELSE Len(args))
      day == args[1].val
      hour == args[2].val
      minute == IF Len(args) > 2 THEN args[3].val ELSE 0
      world_seconds == IF Len(args) = 1 THEN args[1].val
                       ELSE day * SecondsPerDay + hour * SecondsPerHour
                            + minute * 60
      outcome == IF Len(args) < 1 THEN "usage"
                 ELSE IF \E n \in converted : ~args[n].numeric
                 THEN "invalid_format"
                 ELSE IF Len(args) > 1
                         /\ ~(0 <= hour /\ hour < 24 /\ 0 <= minute
                              /\ minute < 60)
                 THEN "invalid_time"
                 ELSE "set"
  IN /\ world_time' = IF outcome = "set"
                      THEN SetWorldSeconds(world_seconds, real_time)
                      ELSE world_time
     /\ clock_log' = [op |-> "set_time",
                      last |-> IF outcome = "set" THEN NoReading
                               ELSE clock_log.last,
                      mark |-> IF outcome = "set" THEN NoReading
                               ELSE clock_log.mark,
                      set |-> [args |-> args, outcome |-> outcome,
                               before |-> world_time]]
     /\ UNCHANGED <<real_time, travel, offWorldVars>>

SetTimeArgs ==
  {<<>>, <<Number(-5)>>, <<Number(64799)>>, <<Number(72000)>>, <<Junk>>,
   <<Number(1), Number(9)>>, <<Number(0), Number(24)>>,
   <<Number(-1), Number(0)>>, <<Number(0), Number(9), Number(0)>>}

\* ------------------------------------------------------------ store hours
\* WorldTime.parse_time of "HH:MM", given as <<HH, MM>>
ParseTime(time_string) ==
  IF /\ 0 <= time_string[1] /\ time_string[1] < 24
     /\ 0 <= time_string[2] /\ time_string[2] < 60
  THEN time_string[1] * 60 + time_string[2]
  ELSE Absent

\* the comparison of WorldTime.is_time_in_range; the first definition
\* leaves out the overnight branch
InRangeNoWrap(current_minutes, start_minutes, end_minutes) ==
  start_minutes <= current_minutes /\ current_minutes < end_minutes

InRange(current_minutes, start_minutes, end_minutes) ==
  IF start_minutes > end_minutes
  THEN current_minutes >= start_minutes \/ current_minutes < end_minutes
  ELSE start_minutes <= current_minutes /\ current_minutes < end_minutes

\* WorldTime.is_time_in_range(start_time, end_time) for "HH:MM" strings
IsTimeInRange(world_seconds, start_time, end_time) ==
  /\ ParseTime(start_time) # Absent
  /\ ParseTime(end_time) # Absent
  /\ InRange(GetHour(world_seconds) * 60 + GetMinute(world_seconds),
             ParseTime(start_time), ParseTime(end_time))

\* store_hours.store_hours: the shop keeps hours, the street has none
StoreHours ==
  [shop |-> [open_time |-> <<8, 0>>, close_time |-> <<18, 0>>,
             closed_days |-> {1}]]

\* StoreHours.is_store_open; the first definition leaves out the closed days
IsStoreOpenAnyDay(store_id, world_seconds) ==
  \/ store_id \notin DOMAIN StoreHours
  \/ IsTimeInRange(world_seconds, StoreHours[store_id].open_time,
                   StoreHours[store_id].close_time)

IsStoreOpen(store_id, world_seconds) ==
  \/ store_id \notin DOMAIN StoreHours
  \/ /\ GetDayNumber(world_seconds) \notin StoreHours[store_id].closed_days
     /\ IsTimeInRange(world_seconds, StoreHours[store_id].open_time,
                      StoreHours[store_id].close_time)

\* StoreHours.get_store_status
GetStoreStatus(store_id, world_seconds) ==
  IF IsStoreOpen(store_id, world_seconds) THEN "Open" ELSE "Closed"

\* room.exits
Exits == [street |-> [north |-> "shop"], shop |-> [south |-> "street"]]

Directions == {"north", "south", "west"}

\* move_command: the target room keeps hours and is closed
GateShut(room_id, new_room_id, world_seconds) ==
  /\ new_room_id \in DOMAIN StoreHours
  /\ ~IsStoreOpen(new_room_id, world_seconds)

\* move_command(game, player, direction) for the traveller
MoveCommand(direction) ==
  LET room_id == travel.room_id
      world_seconds == GetWorldSeconds(world_time, real_time)
      new_room_id == Exits[room_id][direction]
  IN /\ travel' =
          IF direction \notin DOMAIN Exits[room_id]
          THEN [travel EXCEPT !.message = "no_exit"]
          ELSE IF GateShut(room_id, new_room_id, world_seconds)
          THEN [travel EXCEPT
                  !.message = "shop_is_"
                              \o GetStoreStatus(new_room_id, world_seconds),
                  !.turned_away = TRUE]
          ELSE [travel EXCEPT
                  !.room_id = new_room_id,
                  !.players = [r \in DOMAIN travel.players |->
                                 IF r = new_room_id
                                 THEN travel.players[r] \cup {"traveller"}
                                 ELSE IF r = room_id
                                 THEN travel.players[r] \ {"traveller"}
                                 ELSE travel.players[r]],
                  !.explored_rooms = @ \cup {new_room_id},
                  !.experience = IF new_room_id \in travel.explored_rooms
                                 THEN @ ELSE @ + ExplorationExp,
                  !.message = "moved"]
     /\ clock_log' = [clock_log EXCEPT !.op = "move"]
     /\ UNCHANGED <<world_time, real_time, offWorldVars>>

WorldNext ==
  \/ ClockTick
  \/ \E keep \in BOOLEAN : ReadClock(keep)
  \/ \E args \in SetTimeArgs : SetTimeCommand(args)
  \/ \E direction \in Directions : MoveCommand(direction)

\* the server with no function call under way
WorldInit == RestInit /\ calc = NoCalc

WorldSpec == WorldInit /\ [][WorldNext]_vars

\* ----------------------------------------------------------- NPC presence
\* NPCScheduler.npc_schedules: the goblin keeps the hall from 08:00 to 18:00
NpcSchedules ==
  [goblin |-> <<[start |-> <<8, 0>>, end |-> <<18, 0>>, room_id |-> "hall"]>>]

\* NPCScheduler.room_npc_index.get(room_id, set()), as add_npc_schedule
\* builds it
RoomNpcIndex(room_id) ==
  {npc_id \in DOMAIN NpcSchedules :
     \E n \in 1..Len(NpcSchedules[npc_id]) :
       NpcSchedules[npc_id][n].room_id = room_id}

\* can_change_schedule(npc_id) of look_command: a combatant of the room's
\* active combat cannot
CanChangeSchedule(npc_id, c) ==
  ~(c.is_active /\ npc_id \in DOMAIN c.combatants)

\* one NPC of get_present_npcs' loop: a block of the schedule names the
\* room and holds the time
ScheduledNow(npc_id, room_id, world_seconds) ==
  \E n \in 1..Len(NpcSchedules[npc_id]) :
    /\ NpcSchedules[npc_id][n].room_id = room_id
    /\ IsTimeInRange(world_seconds, NpcSchedules[npc_id][n].start,
                     NpcSchedules[npc_id][n].end)

\* NPCScheduler.get_present_npcs(room_id, npc_check_func): the list it
\* returns and deferred_changes after it
GetPresentNpcs(room_id, deferred, c, world_seconds) ==
  LET candidate_npcs == RoomNpcIndex(room_id)
      free == {npc_id \in candidate_npcs : npc_id \notin deferred}
      busy == {npc_id \in free : ~CanChangeSchedule(npc_id, c)}
  IN [present |-> {npc_id \in free \ busy :
                     ScheduledNow(npc_id, room_id, world_seconds)},
      deferred |-> deferred \cup busy]

\* present_npc_ids of look_command; the first definition leaves out the
\* room's static NPCs
ScheduledOnly(static, scheduled) == scheduled

PresentNpcIds(static, scheduled) == static \cup scheduled

\* look_command(game, player, args) with no args, in the hall
LookCommand(p) ==
  LET g == GetPresentNpcs("hall", deferred_changes, combat,
                          GetWorldSeconds(world_time, real_time))
  IN /\ deferred_changes' = g.deferred
     /\ present_npc_ids' = PresentNpcIds(room_npcs, g.present)
     /\ lastEvent' = Event("look", p, "seen")
     /\ UNCHANGED <<combat, health, room_npcs, experience, now,
                    commands_issued, attack_log, auto_attacks, horizon_start,
                    turn_since, room_order>>
     /\ UNCHANGED <<spawnVars, sessionVars, cellarVars, race, storeVars, calc,
                    worldVars, rateVars, passes, player_room_id,
                    weatherVars, connVars>>

\* the times the admin sets: 20:00 and 09:00 of day 0
PresenceTimeArgs == {<<Number(72000)>>, <<Number(0), Number(9), Number(0)>>}

PresenceNext ==
  \/ Next
  \/ \E p \in players : LookCommand(p)
  \/ \E args \in PresenceTimeArgs : SetTimeCommand(args)

PresenceSpec == Init /\ [][PresenceNext]_vars

\* the running server: commands and looks as the players send them, and the
\* ticker thread making pass after pass
PresenceFairNext ==
  \/ FairNext
  \/ \E p \in players : LookCommand(p)

PresenceFairSpec ==
  Init /\ [][PresenceFairNext]_vars /\ WF_passes(TickerPass)

\* ---------------------------------------------------------------- weather
\* weather_transitions as load() leaves it with no file: the types that
\* random.choices may draw after each type
WeatherTransitions ==
  [clear |-> {"clear", "fog", "wind"},
   fog |-> {"fog", "clear", "squall"},
   wind |-> {"wind", "clear", "squall"},
   squall |-> {"wind", "clear"},
   cold_snap |-> {"cold_snap", "clear"},
   salt_rain |-> {"salt_rain", "clear"}]

\* random.randint(600, 1800): the two ends and the middle
DurationDraws == {MinDuration, (MinDuration + MaxDuration) \div 2, MaxDuration}

\* get_region_weather(region_id) at time t: the record, made if missing
GetRegionWeather(weather, t) ==
  IF weather.exists THEN weather
  ELSE [exists |-> TRUE, weather_type |-> "clear", intensity |-> 0,
        started_at |-> t, next_change_at |-> t + FirstDuration]

\* the two assignments to state["intensity"] in _roll_next_weather; the
\* first definition leaves out the min
IntensityUncapped(intensity, new_type) ==
  Max2(0, intensity + (IF new_type # "clear" THEN 1 ELSE -1))

Intensity(intensity, new_type) ==
  LET stepped == intensity + (IF new_type # "clear" THEN 1 ELSE -1)
      capped == IF stepped > MaxIntensity THEN MaxIntensity ELSE stepped
  IN Max2(0, capped)

\* _roll_next_weather(region_id) at time t with the draws made
RollNextWeather(weather, t, new_type, duration) ==
  LET state == GetRegionWeather(weather, t)
  IN [state EXCEPT !.weather_type = new_type,
                   !.intensity = Intensity(@, new_type),
                   !.started_at = t,
                   !.next_change_at = t + duration]

\* a caller asks for the coast's weather
GetRegionWeatherCall ==
  LET t == GetWorldSeconds(world_time, real_time)
  IN /\ region_weather' = GetRegionWeather(region_weather, t)
     /\ weather_log' = [op |-> "get", now |-> t, before |-> region_weather]
     /\ UNCHANGED <<combatVars, spawnVars, sessionVars, cellarVars,
                    room_order, race, storeVars, calc, worldVars, rateVars,
                    passes, player_room_id, presenceVars, connVars>>

\* maybe_update_region_weather(region_id, ...) with a world clock
MaybeUpdateRegionWeather(new_type, duration) ==
  LET t == GetWorldSeconds(world_time, real_time)
      state == GetRegionWeather(region_weather, t)
  IN /\ region_weather' =
          IF t < state.next_change_at THEN state
          ELSE RollNextWeather(state, t, new_type, duration)
     /\ weather_log' = [op |-> "maybe_update", now |-> t,
                        before |-> region_weather]
     /\ UNCHANGED <<combatVars, spawnVars, sessionVars, cellarVars,
                    room_order, race, storeVars, calc, worldVars, rateVars,
                    passes, player_room_id, presenceVars, connVars>>

\* the world seconds the admin sets: the first change and one second
\* before it, then two hours apart
WeatherTimeArgs ==
  {<<Number(FirstDuration - 1)>>, <<Number(FirstDuration)>>, <<Number(7200)>>,
   <<Number(14400)>>, <<Number(21600)>>, <<Number(28800)>>}

WeatherNext ==
  \/ GetRegionWeatherCall
  \/ \E duration \in DurationDraws :
       \E new_type \in WeatherTransitions[
                         GetRegionWeather(region_weather, 0).weather_type] :
         MaybeUpdateRegionWeather(new_type, duration)
  \/ \E args \in WeatherTimeArgs : SetTimeCommand(args)

WeatherSpec == Init /\ [][WeatherNext]_vars

\* ------------------------------------------------------------ connections
\* every action below leaves the rest of the server alone
offConnVars == <<combatVars, spawnVars, sessionVars, cellarVars, room_order,
                 race, storeVars, calc, worldVars, rateVars, passes,
                 player_room_id, presenceVars, weatherVars>>

\* max(0, self.active_connections - 1)
Decrement(count) == Max2(0, count - 1)

\* handle_websocket_client up to the wait for the first frame: the server
\* is full and the handler returns, or the connection is counted
Admit(h) ==
  /\ handler[h] = "none"
  /\ IF active_connections >= max_connections
     THEN /\ handler' = [handler EXCEPT ![h] = "refused"]
          /\ UNCHANGED active_connections
     ELSE /\ handler' = [handler EXCEPT ![h] = "auth"]
          /\ active_connections' = active_connections + 1
  /\ UNCHANGED offConnVars

\* the ways out of the authentication that count the connection down
\* before they return
CountedExits ==
  {"auth_timeout", "closed_before_auth", "empty_frame", "not_auth",
   "not_json", "no_token", "verify_timeout", "verify_failed"}

\* the ways out of it that return at once
PlainExits == {"invalid_token", "character_creation_closed"}

\* the authentication ends the handler: a return inside the try block, so
\* that the finally block is still to run
AuthExit(h, path) ==
  /\ handler[h] = "auth"
  /\ handler' = [handler EXCEPT ![h] = "finally"]
  /\ active_connections' = IF path \in CountedExits
                           THEN Decrement(active_connections)
                           ELSE active_connections
  /\ UNCHANGED offConnVars

\* the token is good and the player is in the game
Authenticated(h) ==
  /\ handler[h] = "auth"
  /\ handler' = [handler EXCEPT ![h] = "session"]
  /\ UNCHANGED <<active_connections, offConnVars>>

\* the session's loop ends: the player quits or the socket closes
SessionClosed(h) ==
  /\ handler[h] = "session"
  /\ handler' = [handler EXCEPT ![h] = "finally"]
  /\ UNCHANGED <<active_connections, offConnVars>>

\* the finally block of the handler, and the handler is over
Finally(h) ==
  /\ handler[h] = "finally"
  /\ handler' = [handler EXCEPT ![h] = "finished"]
  /\ active_connections' = Decrement(active_connections)
  /\ UNCHANGED offConnVars

ConnNext ==
  \E h \in Handlers :
    \/ Admit(h)
    \/ \E path \in CountedExits \cup PlainExits : AuthExit(h, path)
    \/ Authenticated(h)
    \/ SessionClosed(h)
    \/ Finally(h)

ConnSpec == Init /\ [][ConnNext]_vars

\* ---------------------------------------------------------- time in range
\* clock readings and block ends around midnight and around the hours
RangeSeconds ==
  {0, 59, 60, 21599, 21600, 79199, 79200, 86399, 86400 + 21600}

RangeMinutes == {0, 360, 1320, 1439}

\* "HH:MM" of a number of minutes since midnight
TimeString(minutes) == <<minutes \div 60, minutes % 60>>

\* is_time_in_range called with the two ends as minutes or as strings
RangeCall(as_strings) ==
  /\ calc.pc = "range"
  /\ calc' = [pc |-> "range_done",
              current_minutes |-> GetHour(calc.world_seconds) * 60
                                  + GetMinute(calc.world_seconds),
              start_minutes |-> calc.start_minutes,
              end_minutes |-> calc.end_minutes,
              result |->
                IF as_strings
                THEN IsTimeInRange(calc.world_seconds,
                                   TimeString(calc.start_minutes),
                                   TimeString(calc.end_minutes))
                ELSE InRange(GetHour(calc.world_seconds) * 60
                             + GetMinute(calc.world_seconds),
                             calc.start_minutes, calc.end_minutes)]
  /\ UNCHANGED offRestVars

RangeInit ==
  /\ RestInit
  /\ calc \in [pc : {"range"}, world_seconds : RangeSeconds,
               start_minutes : RangeMinutes, end_minutes : RangeMinutes]

RangeNext == \E as_strings \in BOOLEAN : RangeCall(as_strings)

RangeSpec == RangeInit /\ [][RangeNext]_vars

\* ----------------------------------------------------------- rate limiting
offRateVars == <<combatVars, spawnVars, sessionVars, cellarVars, room_order,
                 race, storeVars, calc, world_time, clock_log, travel,
                 passes, player_room_id, presenceVars, weatherVars, connVars>>

\* [t for t in player_commands if now - t < 1.0]
WithinWindow(player_commands, t) ==
  SelectSeq(player_commands, LAMBDA stamp : t - stamp < UnitsPerSecond)

\* check_rate_limit(player_name) at time t: the answer and the list left
CheckRateLimitAboveCap(player_commands, t) ==
  LET kept == WithinWindow(player_commands, t)
  IN IF Len(kept) > max_commands_per_second
     THEN [ok |-> FALSE, player_commands |-> kept]
     ELSE [ok |-> TRUE, player_commands |-> Append(kept, t)]

CheckRateLimit(player_commands, t) ==
  LET kept == WithinWindow(player_commands, t)
  IN IF Len(kept) >= max_commands_per_second
     THEN [ok |-> FALSE, player_commands |-> kept]
     ELSE [ok |-> TRUE, player_commands |-> Append(kept, t)]

\* the players, in some order
RateOrder == <<"alice", "bob">>

\* a blank line, a line validate_command refuses, a line it passes
CommandLines == {"blank", "dangerous", "look"}

\* process_command(player, command) up to the dispatch of the command
ProcessCommand(player, command) ==
  /\ LET check == CheckRateLimit(rate_limiter[player], real_time)
         outcome == IF command = "blank" THEN "ignored"
                    ELSE IF command = "dangerous" THEN "invalid_format"
                    ELSE IF ~check.ok THEN "too_quickly"
                    ELSE "executed"
         checked == outcome \in {"too_quickly", "executed"}
     IN /\ outcome = "executed"
           => SumSeq([n \in 1..Len(RateOrder) |->
                        Len(rate_log.accepted[RateOrder[n]])])
                < MaxRateCommands
        /\ rate_limiter' =
             IF checked
             THEN [rate_limiter EXCEPT ![player] = check.player_commands]
             ELSE rate_limiter
        /\ rate_log' =
             [accepted |->
                IF outcome = "executed"
                THEN [rate_log.accepted EXCEPT
                        ![player] = Append(@, real_time)]
                ELSE rate_log.accepted,
              executed |->
                IF outcome = "executed"
                THEN [rate_log.executed EXCEPT ![player] = @ + 1]
                ELSE rate_log.executed,
              last |-> [player |-> player, outcome |-> outcome,
                        counted |->
                          /\ checked
                          /\ Len(check.player_commands)
                               > Len(WithinWindow(rate_limiter[player],
                                                  real_time)),
                        executed |-> outcome = "executed"]]
  /\ UNCHANGED <<real_time, offRateVars>>

\* time.time() moves on by one unit
RateTick ==
  /\ real_time < MaxRateTime
  /\ real_time' = real_time + 1
  /\ UNCHANGED <<rateVars, offRateVars>>

RateNext ==
  \/ RateTick
  \/ \E player \in Players, command \in CommandLines :
       ProcessCommand(player, command)

RateInit == RestInit /\ calc = NoCalc

RateSpec == RateInit /\ [][RateNext]_vars

\* =================================================================== C1
\* C1: with max_alive = 1 and a timer that starts eligible, once every one
\* of the concurrent callers of try_consume_spawn_eligibility has returned,
\* exactly one of them got True, and alive_count never exceeds max_alive.
C1_ExactlyOneSucceeds ==
  (/\ data_layer = "FirebaseDataLayer"
   /\ \A k \in Callers : consumers[k].pc = "done"
                          /\ consumers[k].max_alive = DefaultMaxAlive)
  => /\ Cardinality({k \in Callers : consumers[k].result}) = 1
     /\ room_state.alive_count <= DefaultMaxAlive

\* =================================================================== C2
\* C2: a primary process_turn by a combatant whose primary slot is filled is
\* rejected and leaves the action slots, the turn pointer, the round and
\* every health unchanged; and no combatant lands two primary attacks under
\* one round_number, out-of-turn attacks included.
C2_OnePrimaryPerRound ==
  [][/\ lastEvent'.outcome = "already used"
          => /\ combat'.turn_actions = combat.turn_actions
             /\ combat'.current_turn_index = combat.current_turn_index
             /\ combat'.round_number = combat.round_number
             /\ health' = health
     /\ \A n \in Names : attack_log'[n].count <= 1]_vars

\* =================================================================== C3
\* C3: while a combat is active and its initiative_order is not empty,
\* 0 <= current_turn_index < len(initiative_order).
C3_TurnIndexInRange ==
  (combat.is_active /\ combat.initiative_order # <<>>)
  => /\ 0 <= combat.current_turn_index
     /\ combat.current_turn_index < Len(combat.initiative_order)

\* =================================================================== C4
\* C4: in the step in which an attack, by command or by the ticker, brings a
\* target's health to 0, the target leaves the combat, a template NPC
\* leaves the room's NPC set and the player that killed it gains
\* experience, and the combat is inactive if fewer than two combatants
\* remain.
C4_DefeatHandledInStep ==
  [][\A n \in Names :
       (health[n] > 0 /\ health'[n] <= 0)
       => /\ n \notin DOMAIN combat'.combatants
          /\ n \in Npcs => n \notin room_npcs'
          /\ (n \in Npcs /\ lastEvent'.actor \in Players)
               => experience'[lastEvent'.actor] > experience[lastEvent'.actor]
          /\ Cardinality(DOMAIN combat'.combatants) < 2
               => ~combat'.is_active]_vars

\* =================================================================== C5
\* C5: when the ticker finds the attack interval of the current combatant
\* elapsed and that combatant's target is no longer a combatant, the pass
\* advances the turn, for a player as for an NPC.
C5_VanishedTargetAdvances ==
  [][(/\ lastEvent'.op = "ticker"
      /\ TickBranch(combat, now') = "act"
      /\ combat.combatants[CurrentName(combat)].target # NoName
      /\ combat.combatants[CurrentName(combat)].target
            \notin DOMAIN combat.combatants)
     => \/ combat'.current_turn_index # combat.current_turn_index
        \/ combat'.round_number # combat.round_number]_vars

\* =================================================================== C6
\* C6: every combatant of an active combat that has kept a valid target
\* since horizon_start has emitted, over the T seconds since then, a number
\* of auto-attacks within 1 of floor(T / (BAT * speed_cost)).
C6_AttacksPerHorizon ==
  combat.is_active
  => \A n \in DOMAIN combat.combatants :
       (combat.combatants[n].target \in DOMAIN combat.combatants)
       => LET due == ((now - horizon_start) * 10)
                       \div (TurnTimeoutTenths * UnitsPerSecond)
          IN /\ auto_attacks[n] <= due + 1
             /\ auto_attacks[n] >= due - 1

\* =================================================================== C7
\* C7: a ticker pass that finds a player without a target, or with a target
\* that is not a combatant, at the turn pointer emits no attack: it changes
\* neither the combat record nor anybody's health.
C7_NoTargetNoAutoAttack ==
  [][(/\ lastEvent'.op = "ticker"
      /\ combat.is_active
      /\ CurrentName(combat) \in Players \cap DOMAIN combat.combatants
      /\ \/ combat.combatants[CurrentName(combat)].target = NoName
         \/ combat.combatants[CurrentName(combat)].target
               \notin DOMAIN combat.combatants)
     => /\ combat' = combat
        /\ health' = health
        /\ attack_log' = attack_log
        /\ lastEvent'.outcome \in {"paused", "wait"}]_vars

\* a pass met a player without a valid target whose interval had elapsed
C7_Witness ==
  /\ lastEvent.op = "ticker"
  /\ lastEvent.outcome = "paused"
  /\ lastEvent.actor \in Players
  /\ combat.is_active

\* =================================================================== C8
\* C8: a step of an active combat that takes current_turn_index from the
\* last position to 0 adds 1 to round_number, empties every combatant's
\* action slots and stamps every combatant's turn_started_at with the
\* current time; no other step of an active combat changes round_number.
C8_RoundChangesOnlyOnWrap ==
  [][(combat.is_active /\ combat'.is_active)
     => LET wrap == /\ combat.initiative_order # <<>>
                    /\ combat.current_turn_index
                          = Len(combat.initiative_order) - 1
                    /\ combat'.current_turn_index = 0
        IN /\ wrap
                => /\ combat'.round_number = combat.round_number + 1
                   /\ \A n \in DOMAIN combat'.combatants :
                        /\ combat'.turn_actions[n] = NoAction
                        /\ combat'.turn_started_at[n] = now'
           /\ combat'.round_number # combat.round_number => wrap]_vars

\* =================================================================== C9
\* C9: right after the attack command has run start_combat, on a fresh
\* record or on one retained from an ended combat, the record is active,
\* the attacker and its target are combatants in state Engaged that target
\* each other, and both carry a turn_started_at stamp of the current time.
C9_StartCombatEngagesBoth ==
  (lastEvent.op = "attack" /\ lastEvent.outcome = "started")
  => LET a == lastEvent.actor
     IN /\ combat.is_active
        /\ a \in DOMAIN combat.combatants
        /\ combat.combatants[a].state = "Engaged"
        /\ LET t == combat.combatants[a].target
           IN /\ t \in DOMAIN combat.combatants
              /\ t # a
              /\ combat.combatants[t].state = "Engaged"
              /\ combat.combatants[t].target = a
              /\ a \in DOMAIN combat.turn_started_at
              /\ t \in DOMAIN combat.turn_started_at
              /\ combat.turn_started_at[a] = now
              /\ combat.turn_started_at[t] = now

\* start_combat ran on a retained record: a combatant other than the two
\* was left over or the target was there before the attacker, an action
\* slot was still filled, and the retained stamps were older than now
C9_Witness ==
  /\ lastEvent.op = "attack" /\ lastEvent.outcome = "started"
  /\ combat.combatant_keys[1] # lastEvent.actor
  /\ \E n \in DOMAIN combat.combatants :
       combat.turn_actions[n].primary = "attack"
  /\ combat.started_at > 0

\* ================================================================== C10
\* C10: the join command on an active combat leaves round_number, the
\* combatant whose turn it is and every earlier combatant's action slots
\* as they were, and the newcomer is Engaged if a target was given and
\* Observing otherwise; on an inactive combat it changes nothing.
C10_JoinKeepsTheRound ==
  [][lastEvent'.op = "join"
     => LET p == lastEvent'.actor
        IN /\ lastEvent'.outcome \in {"joined", "joined with target"}
                => /\ combat'.round_number = combat.round_number
                   /\ CurrentName(combat') = CurrentName(combat)
                   /\ \A n \in DOMAIN combat.combatants :
                        combat'.turn_actions[n] = combat.turn_actions[n]
                   /\ combat'.combatants[p].state =
                        IF lastEvent'.outcome = "joined with target"
                        THEN "Engaged" ELSE "Observing"
           /\ ~combat.is_active => combat' = combat]_vars

\* =================================================================== C11
\* C11: the step in which a player's session closes while the player is a
\* combatant leaves the combat record as leave_combat(room, player) would,
\* and afterwards no player without a live session is a combatant.
C11_ClosedSessionLeavesCombat ==
  [][(lastEvent'.op = "close" /\ lastEvent'.actor \in DOMAIN combat.combatants)
       => /\ combat' = LeaveCombat(combat, lastEvent'.actor)
          /\ (Players \ players') \cap DOMAIN combat'.combatants = {}]_vars

\* =================================================================== C12
\* C12: in every reachable state initiative_order holds exactly the keys of
\* combatants, each once, with the initiative recorded for it, and is sorted
\* by initiative in descending order.
C12_InitiativeOrderMatchesCombatants ==
  LET o == combat.initiative_order
  IN /\ {o[i][1] : i \in 1..Len(o)} = DOMAIN combat.combatants
     /\ Len(o) = Cardinality(DOMAIN combat.combatants)
     /\ \A i \in 1..Len(o) : o[i][3] = combat.combatants[o[i][1]].initiative
     /\ \A i \in 1..(Len(o) - 1) : o[i][3] >= o[i + 1][3]

\* a third combatant has joined with a higher initiative than the one that
\* was first in the list, and a combatant has been removed after that
C12_Witness ==
  /\ combat.is_active
  /\ Len(combat.initiative_order) = 2
  /\ combat.initiative_order[1][1] = "bob"
  /\ combat.initiative_order[1][3] > combat.initiative_order[2][3]
  /\ lastEvent.op = "ticker" /\ lastEvent.outcome = "hit"
  /\ "goblin" \notin DOMAIN combat.combatants
  /\ health["goblin"] = 0

\* =================================================================== C13
\* C13: a ticker pass resolves an auto-attack only for a combatant whose
\* turn_started_at stamp was placed when its running turn began, and no
\* sooner than the attack interval after that moment.
C13_AutoAttackAfterFreshStamp ==
  [][(lastEvent'.op = "ticker"
      /\ lastEvent'.outcome \in {"hit", "Attack missed"})
       => LET who == Emitter(combat, now')
          IN /\ who \in DOMAIN combat.turn_started_at
             /\ combat.turn_started_at[who] = turn_since
             /\ IntervalElapsed(turn_since, now')]_vars

\* =================================================================== C14
\* C14: whatever a ticker pass meets in one room, every other room whose
\* combat was active when the pass began has been processed by that pass.
C14_RaiseConfinedToItsRoom ==
  \A r \in pass_log.active : r # pass_log.raiser => r \in pass_log.done

\* =================================================================== C15
\* C15: when a disengage command and a ticker pass over the same room have
\* overlapped, the state they leave is one that the pass followed by the
\* command, or the command followed by the pass, leaves from the state the
\* overlap began in.
C15_OverlapIsSerializable ==
  [][(race.overlap /\ race' = NoRace)
       => LET p == race.leaver
              Leave(c) == IF c.is_active /\ p \in DOMAIN c.combatants
                          THEN LeaveCombat(c, p) ELSE c
          IN \E hit \in BOOLEAN : \E dmg \in DamageDraws(hit) :
               LET tick_first == ProcessCombatTicks(race.base_c, race.base_h,
                                                    hit, dmg, race.t)
                   cmd_first == ProcessCombatTicks(Leave(race.base_c),
                                                   race.base_h, hit, dmg,
                                                   race.t)
               IN \/ combat' = Leave(tick_first.c) /\ health' = tick_first.h
                  \/ combat' = cmd_first.c /\ health' = cmd_first.h]_vars

\* =================================================================== C16
\* C16: a try_consume_spawn_eligibility call returns True only if, in the
\* timer it commits against, alive_count < max_alive and the call's now has
\* reached next_spawn_at; the same commit then adds 1 to alive_count and sets
\* last_spawn_at = now and next_spawn_at = now + cooldown; a call that
\* returns False leaves the stored timer as it was.
C16_ConsumeCommitsWhatItChecked ==
  [][\A k \in Callers :
       (consumers[k].pc # "done" /\ consumers'[k].pc = "done")
         => IF consumers'[k].result
            THEN /\ room_state.alive_count < consumers'[k].max_alive
                 /\ consumers'[k].now >= room_state.next_spawn_at
                 /\ room_state' =
                      [alive_count |-> room_state.alive_count + 1,
                       last_spawn_at |-> consumers'[k].now,
                       next_spawn_at |-> consumers'[k].now + DefaultCooldown]
            ELSE room_state' = room_state]_vars

\* one caller was granted a slot, and a later caller that allowed two alive
\* was turned down while the cooldown ran
C16_Witness ==
  \E j \in Callers, k \in Callers :
    /\ consumers[j].pc = "done" /\ consumers[j].result
    /\ consumers[k].pc = "done" /\ ~consumers[k].result
    /\ consumers[k].max_alive > room_state.alive_count
    /\ consumers[k].now < room_state.next_spawn_at
    /\ room_state.alive_count = 1
\* =================================================================== C17
\* C17: a get_entities_in_room call that returns leaves out every instance
\* of the room whose expires_at is at or before the time of the call and
\* leaves neither its instance record nor its position record in the store;
\* every other instance of the room is in the result, its two records as
\* they were.
C17_ExpiredInstancesAreCulled ==
  [][(/\ store_log' # store_log
      /\ store_log'.op = "get_entities_in_room"
      /\ ~store_log'.raised)
     => \A i \in Uuids :
          (entity_position[i] = store_log'.room /\ entity_instance[i].exists)
          => IF /\ entity_instance[i].expires_at # Absent
                /\ entity_instance[i].expires_at <= spawn_now
             THEN /\ \A item \in store_log'.out : item.instance_id # i
                  /\ ~entity_instance'[i].exists
                  /\ entity_position'[i] = "none"
             ELSE /\ Combined(entity_instance[i], i, store_log'.room)
                       \in store_log'.out
                  /\ entity_instance'[i] = entity_instance[i]
                  /\ entity_position'[i] = entity_position[i]]_vars

\* a query has returned an instance that expires later and has removed an
\* expired one
C17_Witness ==
  /\ store_log.op = "get_entities_in_room"
  /\ ~store_log.raised
  /\ \E item \in store_log.out :
       /\ item.expires_at > store_log.t
       /\ entity_instance[item.instance_id].exists
       /\ entity_position[item.instance_id] = store_log.room
  /\ \E i \in 1..uuids :
       /\ ~entity_instance[i].exists
       /\ entity_position[i] = "none"


\* =================================================================== C18
\* C18: a maybe_reset_room call on a room whose next_reset_at has come is a
\* reset: state_version goes up by exactly 1, last_reset_at becomes now and
\* next_reset_at becomes now + 3600; on a room whose next_reset_at has not
\* come it leaves the stored state as it is; and a call that follows a call
\* for the same room, with no time passed or with next_reset_at not yet
\* reached, writes nothing.
C18_ResetOncePerWindow ==
  [][(/\ store_log' # store_log
      /\ store_log'.op = "maybe_reset_room"
      /\ ~store_log'.raised)
     => LET r == store_log'.room
            before == room_doc[r]
            after == room_doc'[r]
        IN /\ (before.exists /\ before.next_reset_at <= spawn_now)
              => /\ after.state_version = before.state_version + 1
                 /\ after.last_reset_at = spawn_now
                 /\ after.next_reset_at = spawn_now + DEFAULT_RESET_SECONDS
           /\ (before.exists /\ before.next_reset_at > spawn_now)
              => after = before
           /\ \A other \in Rooms \ {r} : room_doc'[other] = room_doc[other]
           /\ (/\ store_log.op = "maybe_reset_room"
               /\ store_log.room = r
               /\ ~store_log.raised
               /\ before.exists
               /\ \/ spawn_now = store_log.t
                  \/ spawn_now < before.next_reset_at)
              => room_doc' = room_doc]_vars

\* a room created at 0 was reset by the call at 3600, and the call that
\* came right after it, the fourth step, left the record alone: the version
\* is 2
C18_Witness ==
  /\ store_log.op = "maybe_reset_room"
  /\ ~store_log.raised
  /\ store_log.prev = <<"maybe_reset_room", store_log.room, spawn_now>>
  /\ store_log.seq = 4
  /\ store_ops = 4
  /\ spawn_now = DEFAULT_RESET_SECONDS
  /\ room_doc[store_log.room].exists
  /\ room_doc[store_log.room].created_at = 0
  /\ room_doc[store_log.room].state_version = 2
  /\ room_doc[store_log.room].last_reset_at = spawn_now
  /\ room_doc[store_log.room].next_reset_at = 2 * DEFAULT_RESET_SECONDS
  /\ \A other \in Rooms \ {store_log.room} : ~room_doc[other].exists


\* =================================================================== C19
\* C19: a roll_random_encounter call spawns instances in a room only if the
\* last roll for that room that got past the chance draw and the cooldown
\* test, whether it spawned a group or was skipped after that, was made at
\* least ENCOUNTER_COOLDOWN_SECONDS earlier.
C19_NoSpawnWithinCooldown ==
  [][(/\ store_log' # store_log
      /\ store_log'.op = "roll_random_encounter"
      /\ store_log'.out # {})
     => LET last == store_log.rolled_at[store_log'.room]
        IN \/ last = Absent
           \/ store_log'.t - last >= ENCOUNTER_COOLDOWN_SECONDS]_vars

\* =================================================================== C20
\* C20: the creature instances that stand in one room and were created less
\* than a cooldown apart come from a single roll: they carry one and the
\* same encounter_id, however the calls of the two sessions interleave.
C20_OneGroupPerRoom ==
  \A i \in Uuids, j \in Uuids :
    (/\ entity_instance[i].exists
     /\ entity_instance[j].exists
     /\ entity_position[i] # "none"
     /\ entity_position[i] = entity_position[j]
     /\ entity_instance[i].created_at - entity_instance[j].created_at
          < ENCOUNTER_COOLDOWN_SECONDS
     /\ entity_instance[j].created_at - entity_instance[i].created_at
          < ENCOUNTER_COOLDOWN_SECONDS)
    => entity_instance[i].encounter_id = entity_instance[j].encounter_id


\* =================================================================== C21
\* C21: an attack whose attacker roll is above the attacker's effective
\* skill never lands; one whose attacker roll is within it lands when the
\* defender's roll is above the defender's effective skill; and when both
\* rolls are within their skills it lands exactly when the attacker's roll
\* is below the defender's.
C21_HitContest ==
  calc.pc = "contest_done"
  => /\ calc.attacker_roll > calc.attacker_effective => ~calc.hit
     /\ (/\ calc.attacker_roll <= calc.attacker_effective
         /\ calc.defender_roll > calc.defender_effective) => calc.hit
     /\ (/\ calc.attacker_roll <= calc.attacker_effective
         /\ calc.defender_roll <= calc.defender_effective)
        => (calc.hit <=> calc.attacker_roll < calc.defender_roll)

\* both rolls were within their skills and were equal: the dodge won
C21_Witness ==
  /\ calc.pc = "contest_done"
  /\ calc.attacker_roll <= calc.attacker_effective
  /\ calc.defender_roll <= calc.defender_effective
  /\ calc.attacker_roll = calc.defender_roll
  /\ ~calc.hit


\* =================================================================== C22
\* C22: a hit that lands deals a final damage of at least 1, whatever the
\* weapon's roll, the attacker's physical attribute, the critical or
\* glancing outcome and the armor: the target's health goes down by at
\* least 1 (or to 0) and never up.
C22_LandedHitDamages ==
  calc.pc = "attack_done"
  => /\ calc.damage >= 1
     /\ calc.health <= Max2(0, calc.health_before - 1)

\* =================================================================== C23
\* C23: the shares of the absorbed damage assigned to the armor pieces add
\* up to the mitigation total, damage minus final damage, and the armor_hp
\* of each piece goes down by exactly its share.
C23_ArmorConservation ==
  calc.pc = "attack_done"
  => /\ SumSeq(calc.shares) = calc.raw_damage - calc.damage
     /\ \A n \in 1..Len(calc.pieces) :
          calc.pieces[n].armor_hp
            = calc.pieces_before[n].armor_hp - calc.shares[n]

\* =================================================================== C24
\* C24: a landed armed attack takes 1 off the weapon's durability, and a
\* weapon whose durability has reached 0 is no longer equipped nor in the
\* inventory when the attack has been resolved.
C24_BrokenWeaponUnequipped ==
  (calc.pc = "attack_done" /\ calc.armed)
  => /\ calc.durability = calc.durability_before - 1
     /\ calc.durability = 0
        => ~calc.weapon_equipped /\ ~calc.weapon_in_inventory


\* =================================================================== C25
\* C25: between two readings of the clock with no set in between, the later
\* reading is not below the earlier one and exceeds it by
\* floor((t2 - t1) * R) world seconds, R = 3.
C25_DifferenceIsFloor ==
  (clock_log.mark.t # Absent /\ clock_log.mark.t < clock_log.last.t)
  => /\ clock_log.mark.world_seconds <= clock_log.last.world_seconds
     /\ clock_log.last.world_seconds - clock_log.mark.world_seconds
          = ((clock_log.last.t - clock_log.mark.t) * TIME_RATIO)
              \div UnitsPerSecond

\* C25 as the clock has it: the later reading is not below the earlier
\* one, the difference is floor((t2 - t1) * R) or one more, and it is
\* exactly floor((t2 - t1) * R) when t1 is the instant the clock was
\* started or last set.
C25_DifferenceWithinOne ==
  (clock_log.mark.t # Absent /\ clock_log.mark.t < clock_log.last.t)
  => LET difference == clock_log.last.world_seconds
                         - clock_log.mark.world_seconds
         floor == ((clock_log.last.t - clock_log.mark.t) * TIME_RATIO)
                    \div UnitsPerSecond
     IN /\ clock_log.mark.world_seconds <= clock_log.last.world_seconds
        /\ difference \in {floor, floor + 1}
        /\ clock_log.mark.t = world_time.start_real_time
           => difference = floor

C25_Witness ==
  /\ clock_log.mark.t = world_time.start_real_time + 1
  /\ clock_log.last.t = clock_log.mark.t + 1
  /\ clock_log.last.world_seconds = clock_log.mark.world_seconds + 2
  /\ clock_log.set.outcome = "set"

\* =================================================================== C26
\* C26: for a block with start > end, is_time_in_range reports the clock
\* time t inside exactly when t >= start or t < end; for start <= end,
\* exactly when start <= t < end.
C26_ScheduleWraparound ==
  calc.pc = "range_done"
  => LET t == calc.current_minutes
         start == calc.start_minutes
         end == calc.end_minutes
     IN /\ start > end => (calc.result <=> (t >= start \/ t < end))
        /\ start <= end => (calc.result <=> (start <= t /\ t < end))

C26_Witness ==
  /\ calc.pc = "range_done"
  /\ calc.start_minutes > calc.end_minutes
  /\ calc.current_minutes < calc.end_minutes
  /\ calc.result

\* =================================================================== C27
\* C27: a set of the clock to a negative value, set_time included, fails
\* with Invalid and leaves start_world_seconds and start_real_time as they
\* were, and the world seconds are negative in no reachable state.
C27_ClockNeverNegative ==
  /\ GetWorldSeconds(world_time, real_time) >= 0
  /\ (/\ clock_log.op = "set_time"
      /\ Len(clock_log.set.args) = 1
      /\ clock_log.set.args[1].numeric
      /\ clock_log.set.args[1].val < 0)
     => /\ clock_log.set.outcome \in {"invalid_time", "invalid_format"}
        /\ world_time = clock_log.set.before

\* =================================================================== C28
\* C28: a move into a shop whose gate is closed (a closed day, or a time
\* outside open_time..close_time) is rejected with an error that cites the
\* closed status, and leaves the player's room_id and the two rooms'
\* players as they were; the move made when the time is inside the open
\* hours of an open day succeeds.
C28_ClosedShopRejectsEntry ==
  [][\A direction \in {"north"} :
       (MoveCommand(direction) /\ travel.room_id = "street")
       => LET world_seconds == GetWorldSeconds(world_time, real_time)
              minutes == (world_seconds % SecondsPerDay) \div 60
              hours == StoreHours["shop"]
              closed ==
                \/ world_seconds \div SecondsPerDay \in hours.closed_days
                \/ minutes < hours.open_time[1] * 60 + hours.open_time[2]
                \/ minutes >= hours.close_time[1] * 60 + hours.close_time[2]
          IN IF closed
             THEN /\ travel'.message = "shop_is_Closed"
                  /\ travel'.room_id = travel.room_id
                  /\ travel'.players = travel.players
             ELSE /\ travel'.room_id = "shop"
                  /\ travel'.players
                       = [street |-> {}, shop |-> {"traveller"}]]_vars

C28_Witness ==
  /\ travel.room_id = "shop"
  /\ travel.turned_away
  /\ travel.experience = ExplorationExp
  /\ clock_log.set = [args |-> <<Number(0), Number(9), Number(0)>>,
                      outcome |-> "set",
                      before |-> [start_real_time |-> 0,
                                  start_world_seconds |-> 72000]]


\* =================================================================== C29
\* C29: for each player, any window of one second holds at most 10
\* commands accepted for execution; a command above the cap is rejected
\* with the error shown to the user, is not executed and is not counted in
\* the window.
C29_RateLimit ==
  /\ \A p \in Players : \A n \in 1..Len(rate_log.accepted[p]) :
       Cardinality({k \in 1..Len(rate_log.accepted[p]) :
                      /\ rate_log.accepted[p][n] - UnitsPerSecond
                           < rate_log.accepted[p][k]
                      /\ rate_log.accepted[p][k] <= rate_log.accepted[p][n]})
         <= max_commands_per_second
  /\ \A p \in Players : rate_log.executed[p] = Len(rate_log.accepted[p])
  /\ rate_log.last.outcome = "too_quickly"
     => ~rate_log.last.executed /\ ~rate_log.last.counted

C29_Witness ==
  /\ rate_log.last.outcome = "too_quickly"
  /\ rate_log.last.player = "alice"
  /\ Len(rate_log.accepted["alice"]) = max_commands_per_second
  /\ Len(rate_log.accepted["bob"]) = 1


\* =================================================================== C30
\* C30: an attack resolved for the current combatant, by command or by the
\* ticker, hit or miss, moves the turn to the entry of initiative_order
\* that follows it, wrapping to index 0 with one more round: nobody is
\* skipped and the turn does not advance twice for one attack.
C30_OneAdvancePerAttack ==
  [][(/\ lastEvent'.op \in {"attack", "ticker"}
      /\ lastEvent'.outcome \in {"hit", "Attack missed"}
      /\ combat.is_active /\ combat'.is_active
      /\ combat.initiative_order # <<>>
      /\ combat'.initiative_order = combat.initiative_order
      /\ combat.current_turn_index < Len(combat.initiative_order)
      /\ CurrentName(combat) = lastEvent'.actor)
     => LET last == Len(combat.initiative_order) - 1
        IN IF combat.current_turn_index = last
           THEN /\ combat'.current_turn_index = 0
                /\ combat'.round_number = combat.round_number + 1
           ELSE /\ combat'.current_turn_index
                     = combat.current_turn_index + 1
                /\ combat'.round_number = combat.round_number]_vars


\* =================================================================== C31
\* C31: with the ticker running fairly, in an active combat of two or more
\* every combatant that has a target in the combat and waits to attack gets
\* an attack resolved (or the combat ends, or it loses its target): the
\* turn never rests for ever on one combatant while the others wait.
C31_Waits(n) ==
  /\ combat.is_active
  /\ Cardinality(DOMAIN combat.combatants) >= 2
  /\ n \in DOMAIN combat.combatants
  /\ combat.combatants[n].target \in DOMAIN combat.combatants
  /\ ~(/\ lastEvent.actor = n
       /\ lastEvent.op \in {"attack", "ticker"}
       /\ lastEvent.outcome \in {"hit", "Attack missed"})

C31_EveryCombatantActs == \A n \in Names : []<>(~C31_Waits(n))


\* =================================================================== C32
\* C32: every combatant of an active combat is in the combat's room: a
\* player who has moved to another room is no longer a combatant of the
\* room left behind, and is neither attacked there nor auto-attacks there.
C32_CombatantsAreInTheRoom ==
  /\ combat.is_active
     => \A p \in DOMAIN combat.combatants \cap Players :
          player_room_id[p] = "hall"
  /\ (/\ lastEvent.op = "ticker"
      /\ lastEvent.outcome \in {"hit", "Attack missed"}
      /\ lastEvent.actor \in Players)
     => player_room_id[lastEvent.actor] = "hall"


\* =================================================================== C33
\* C33: no combat operation modifies a catalog NPC template: after any
\* sequence of attacks and defeats the template's health equals its loaded
\* value, so a later fight against the same template starts at full health.
C33_TemplatesUntouched == \A n \in Npcs : health[n] = MaxHealth


\* =================================================================== C34
\* C34: whenever a call of roll_random_encounter on an enabled service gets
\* past the chance draw and the cooldown test, the room's
\* last_encounter_roll_at is the call's now when the call returns,
\* whichever row the d100 matches: also when it matches no row and when the
\* row's composition is not found.
C34_StampedPastTheGates ==
  [][(/\ store_log' # store_log
      /\ store_log'.op = "roll_random_encounter"
      /\ ~store_log'.raised
      /\ Enabled(data_layer)
      /\ store_log'.outcome \in PastTheGates)
     => room_doc'[store_log'.room].last_encounter_roll_at = store_log'.t]_vars


C36_BusyNpcStaysPresent ==
  [][lastEvent'.op = "look"
     => \A npc_id \in RoomNpcIndex("hall") :
          (combat.is_active /\ npc_id \in DOMAIN combat.combatants)
          => npc_id \in present_npc_ids']_vars

\* a look during the fight lists the goblin, after the hour at which its
\* schedule has it leave
C36_Witness ==
  /\ lastEvent.op = "look"
  /\ combat.is_active
  /\ "goblin" \in DOMAIN combat.combatants
  /\ "goblin" \in deferred_changes
  /\ "goblin" \in present_npc_ids
  /\ ~ScheduledNow("goblin", "hall", GetWorldSeconds(world_time, real_time))


\* =================================================================== C37
\* C37: every deferral is lifted in the end: an NPC whose schedule change
\* was deferred because it was fighting does not stay deferred for ever
\* once the hall's combat is over.
C37_DeferralLifted ==
  \A npc_id \in Npcs :
    []<>(combat.is_active \/ npc_id \notin deferred_changes)


\* =================================================================== C38
\* C38: a consumed spawn slot is released in the end: once the instances
\* that were spawned are out of the world and the cooldown has run out,
\* alive_count does not stay above zero for ever.
C38_SlotReleased ==
  []<>(\/ room_state.alive_count = 0
       \/ uuids = 0
       \/ \E i \in Uuids : entity_instance[i].exists
       \/ \E i \in Uuids : entity_position[i] # "none"
       \/ spawn_now < room_state.next_spawn_at)


\* =================================================================== C39
\* C39: the coast's weather record keeps its intensity in 0..3; it is made
\* as clear, intensity 0, next_change_at = now + 900; a record that is
\* there changes only in maybe_update_region_weather and only when now >=
\* next_change_at, and then the intensity goes down by one, not below 0,
\* when the new type is clear and up by one, not above 3, otherwise, and
\* next_change_at = now + d with 600 <= d <= 1800.
C39_WeatherRecord ==
  [][LET old == region_weather
         new == region_weather'
         t == weather_log'.now
     IN /\ new.intensity \in 0..3
        /\ (~old.exists /\ new.exists)
           => /\ new.weather_type = "clear"
              /\ new.intensity = 0
              /\ new.next_change_at = t + 900
        /\ (old.exists /\ new # old)
           => /\ weather_log'.op = "maybe_update"
              /\ t >= old.next_change_at
              /\ new.intensity =
                   IF new.weather_type = "clear"
                   THEN (IF old.intensity = 0 THEN 0 ELSE old.intensity - 1)
                   ELSE (IF old.intensity = 3 THEN 3 ELSE old.intensity + 1)
              /\ new.next_change_at - t >= 600
              /\ new.next_change_at - t <= 1800]_vars

\* a fourth worsening in a row: the intensity was 3 and stays 3
C39_Witness ==
  /\ weather_log.op = "maybe_update"
  /\ weather_log.before.exists
  /\ weather_log.before.intensity = 3
  /\ region_weather # weather_log.before
  /\ region_weather.weather_type # "clear"
  /\ region_weather.intensity = 3


\* =================================================================== C40
\* C40: active_connections is the number of handlers that were admitted
\* and have not finished, and never more than max_connections of them are
\* admitted at a time: every way out of the handler counts the connection
\* down exactly once. The count is compared when no handler is on its way
\* out.
C40_CounterIsAdmittedHandlers ==
  LET admitted == {h \in Handlers : handler[h] \in {"auth", "session", "finally"}}
  IN /\ Cardinality(admitted) <= max_connections
     /\ (\A h \in Handlers : handler[h] # "finally")
        => active_connections = Cardinality(admitted)


====
